---- MODULE Spec2Model ----
(***************************************************************************)
(* Model of the repository viewer/editor (pages/index.js, the preview and  *)
(* save endpoints).                                                        *)
(*                                                                         *)
(* A path is the sequence of its tokens: the separator tokens "/" and "."  *)
(* and the separator-free pieces between them, so "a/b.md" is              *)
(* <<"a", "/", "b", ".", "md">>.  String operations of the source (split,  *)
(* pop, join, includes) are computed on that sequence.                     *)
(***************************************************************************)
EXTENDS Integers, Sequences, FiniteSets, Bags, TLC

\* ------------------------------------------------------------------ bounds
\* longest flat list handed to buildTree
MaxEntries == 4
\* most requests the browser has outstanding at once
MaxInFlight == 2

\* ------------------------------------------------------------ JS strings
\* String.prototype.includes(sep) on a token sequence
Includes(s, sep) == \E i \in 1..Len(s) : s[i] = sep

\* String.prototype.split(sep): the pieces between the separators
RECURSIVE SplitFrom(_, _, _, _)
SplitFrom(s, sep, i, cur) ==
    IF i > Len(s) THEN <<cur>>
    ELSE IF s[i] = sep THEN <<cur>> \o SplitFrom(s, sep, i + 1, <<>>)
    ELSE SplitFrom(s, sep, i + 1, Append(cur, s[i]))

Split(s, sep) == SplitFrom(s, sep, 1, <<>>)

\* Array.prototype.pop(): the array without its last element
Pop(parts) == SubSeq(parts, 1, Len(parts) - 1)

\* the element pop() returns
Last(parts) == parts[Len(parts)]

\* Array.prototype.join(sep)
RECURSIVE Join(_, _)
Join(parts, sep) ==
    IF Len(parts) = 0 THEN <<>>
    ELSE IF Len(parts) = 1 THEN parts[1]
    ELSE parts[1] \o <<sep>> \o Join(Tail(parts), sep)

\* --------------------------------------------------------------- buildTree
\* The entries a listing can hold: directories and files, nested, orphaned
\* (parent never listed) and one below a name that Object.prototype defines.
TreeEntries ==
    { [path |-> <<"a">>, type |-> "tree"],
      [path |-> <<"a", "/", "b", ".", "md">>, type |-> "blob"],
      [path |-> <<"a", "/", "c">>, type |-> "tree"],
      [path |-> <<"a", "/", "c", "/", "d", ".", "txt">>, type |-> "blob"],
      [path |-> <<"e", "/", "f">>, type |-> "blob"],
      [path |-> <<"constructor">>, type |-> "tree"],
      [path |-> <<"constructor", "/", "x">>, type |-> "blob"] }

\* `const map = {}`: a plain object answers these keys from Object.prototype
\* (a function or object without a `children` array) before any entry is stored.
ObjectPrototypeKeys == { <<"constructor">>, <<"toString">>, <<"__proto__">> }

\* parts = path.split('/'); parts.pop(); parentPath = parts.join('/')
ParentPath(path) == Join(Pop(Split(path, "/")), "/")

\* ------------------------------------------------------- values of the page
\* JavaScript null and undefined, as token sequences no string equals
NULL == <<"#null">>
UNDEFINED == <<"#undefined">>
\* the empty string; as a path it is falsy like null (`!selectedPath`)
EmptyString == <<>>

\* process.env.GITHUB_ROUTE names the repository; its default branch
DefaultBranch == <<"main">>

\* The listing the bootstrap hands to buildTree (after its path/mode filter).
RepoListing ==
    << [path |-> <<"a">>, type |-> "tree"],
       [path |-> <<"a", "/", "b", ".", "md">>, type |-> "blob"],
       [path |-> <<"p", ".", "PNG">>, type |-> "blob"],
       [path |-> <<"d", ".", "bin">>, type |-> "blob"] >>

DocPath == <<"a", "/", "b", ".", "md">>
ImagePath == <<"p", ".", "PNG">>
BinPath == <<"d", ".", "bin">>

\* What the upstream holds for each file at session start: the bytes, whether
\* they are well-formed UTF-8, and the content-type header it answers with.
InitialRepo ==
    [p \in {DocPath, ImagePath, BinPath} |->
        IF p = DocPath
            THEN [bytes |-> <<"x", "nl">>, utf8 |-> TRUE, contentType |-> <<"application/octet-stream">>]
        ELSE IF p = ImagePath
            THEN [bytes |-> <<"png-bytes">>, utf8 |-> FALSE, contentType |-> <<"text/", "plain">>]
        ELSE [bytes |-> <<"bin-bytes">>, utf8 |-> FALSE, contentType |-> <<"application/octet-stream">>]]

\* String.prototype.toLowerCase(), token by token
LowerToken(t) ==
    IF t = "PNG" THEN "png" ELSE IF t = "MD" THEN "md" ELSE t

ToLowerCase(s) == [i \in 1..Len(s) |-> LowerToken(s[i])]

\* Buffer.from(bytes).toString('base64')
Base64(bytes) == <<"base64:">> \o bytes

\* marked(markdown): the HTML the visual editor is mounted with
Marked(md) == IF md = EmptyString THEN EmptyString ELSE <<"<p>">> \o md \o <<"</p>">>

\* new TurndownService().turndown(html): tags dropped, trailing newline trimmed
RECURSIVE StripTags(_)
StripTags(h) ==
    IF Len(h) = 0 THEN <<>>
    ELSE IF Head(h) \in {"<p>", "</p>"} THEN StripTags(Tail(h))
    ELSE <<Head(h)>> \o StripTags(Tail(h))

RECURSIVE TrimEnd(_)
TrimEnd(s) ==
    IF Len(s) > 0 /\ s[Len(s)] = "nl" THEN TrimEnd(Pop(s)) ELSE s

Turndown(html) == TrimEnd(StripTags(html))

\* what the user types into the source editor, the visual editor, the message box
TypedSource == { <<"y">> }
TypedVisual == { <<"<p>", "y", "nl", "</p>">> }
TypedMessage == { EmptyString, <<"msg">> }

VARIABLES
    env,            \* process.env of the server: [token, route]
    repo,           \* the upstream repository: file path -> [bytes, utf8, contentType]
    selectedPath,   \* useState(null)
    preview,        \* useState('')
    previewMeta,    \* useState(null)
    loadingPreview, \* useState(false)
    isEditing,      \* useState(false)
    editorMode,     \* useState("source")
    editContent,    \* useState("")
    fileSha,        \* useState(null)
    commitMsg,      \* useState("")
    saving,         \* useState(false)
    visualHtml,     \* innerHTML of the mounted visual editor (editorRef.current)
    inflight,       \* the fetches awaiting their continuation: a bag of requests
    lastOp,         \* the handler (and its outcome) that ran last
    served,         \* the last exchange an endpoint handled for any client
    pc,             \* where getServerSideProps is
    calls,          \* the upstream calls getServerSideProps has made, and buildTree
    error,          \* props.error
    listing         \* treeDataJson.tree as the upstream delivered it

pageVars == <<selectedPath, preview, previewMeta, loadingPreview, isEditing,
              editorMode, editContent, fileSha, commitMsg, saving, visualHtml>>
serverVars == <<served, pc, calls, error, listing>>
sessionVars == <<env, repo, pageVars, inflight, lastOp, serverVars>>

\* !x for a string, null or undefined
Falsy(x) == x \in {NULL, UNDEFINED, EmptyString}

\* previewMeta = null
NoMeta ==
    [present |-> FALSE, content |-> EmptyString, isImage |-> FALSE,
     isBinary |-> FALSE, mimeType |-> UNDEFINED, sha |-> UNDEFINED]

\* the object res.json() yields for a 200 answer of the preview endpoint; a key
\* the endpoint does not write reads as undefined
PreviewJson(content, isImage, isBinary, mimeType) ==
    [present |-> TRUE, content |-> content, isImage |-> isImage,
     isBinary |-> isBinary, mimeType |-> mimeType, sha |-> UNDEFINED]

\* an HTTP answer as the browser's fetch sees it; thrown: fetch rejected
NoResponse == [thrown |-> FALSE, status |-> 0, data |-> NoMeta, text |-> EmptyString]
OkResponse(data) == [thrown |-> FALSE, status |-> 200, data |-> data, text |-> EmptyString]
ErrorResponse(status, text) ==
    [thrown |-> FALSE, status |-> status, data |-> NoMeta, text |-> <<"{error:">> \o text \o <<"}">>]
Rejected(message) == [thrown |-> TRUE, status |-> 0, data |-> NoMeta, text |-> message]

\* Response.ok
Ok(res) == ~res.thrown /\ res.status >= 200 /\ res.status <= 299

\* the request an endpoint sends upstream, if it sends one
NoUpstream ==
    [made |-> FALSE, method |-> "none", path |-> EmptyString, ref |-> UNDEFINED,
     message |-> EmptyString, content |-> EmptyString, sha |-> UNDEFINED]

NoBody == [path |-> EmptyString, message |-> EmptyString, content |-> EmptyString,
           sha |-> UNDEFINED, branch |-> UNDEFINED]

\* !githubUserToken || !githubRoute
Configured(e) == ~Falsy(e.token) /\ ~Falsy(e.route)

\* ------------------------------------------------------ the preview endpoint
ImageExts == { <<"jpg">>, <<"jpeg">>, <<"png">>, <<"gif">>, <<"bmp">>, <<"webp">> }
TextFileExts == { <<"js">>, <<"json">>, <<"css">>, <<"html">>, <<"md">>, <<"txt">>,
                  <<"xml">>, <<"csv">>, <<"log">> }

\* path.includes('.') ? path.split('.').pop().toLowerCase() : ''
Extension(path) ==
    IF Includes(path, ".") THEN ToLowerCase(Last(Split(path, "."))) ELSE EmptyString

MimeType(extension) ==
    IF extension = <<"png">> THEN <<"image/png">>
    ELSE IF extension = <<"gif">> THEN <<"image/gif">>
    ELSE IF extension = <<"bmp">> THEN <<"image/bmp">>
    ELSE IF extension = <<"webp">> THEN <<"image/webp">>
    ELSE <<"image/jpeg">>

\* the classification asking the content-type header before the extension
ClassifyHeaderFirst(path, file) ==
    LET extension == Extension(path)
        header == ToLowerCase(file.contentType)
    IN  IF (Len(header) > 0 /\ header[1] = "text/") \/ Includes(header, "charset")
           \/ extension \in TextFileExts
        THEN PreviewJson(file.bytes, FALSE, FALSE, UNDEFINED)
        ELSE IF extension \in ImageExts
        THEN PreviewJson(Base64(file.bytes), TRUE, FALSE, MimeType(extension))
        ELSE IF file.utf8
        THEN PreviewJson(file.bytes, FALSE, FALSE, UNDEFINED)
        ELSE PreviewJson(<<"binary-placeholder">>, FALSE, TRUE, UNDEFINED)

\* The 200 answer for a file the upstream delivered.
Classify(path, file) ==
    LET extension == Extension(path)
        header == ToLowerCase(file.contentType)
    IN  IF extension \in ImageExts
        THEN PreviewJson(Base64(file.bytes), TRUE, FALSE, MimeType(extension))
        ELSE IF (Len(header) > 0 /\ header[1] = "text/") \/ Includes(header, "charset")
                \/ extension \in TextFileExts
        THEN PreviewJson(file.bytes, FALSE, FALSE, UNDEFINED)
        \* new TextDecoder('utf-8', {fatal: true}).decode(...)
        ELSE IF file.utf8
        THEN PreviewJson(file.bytes, FALSE, FALSE, UNDEFINED)
        ELSE PreviewJson(<<"binary-placeholder">>, FALSE, TRUE, UNDEFINED)

\* how the upstream call of an endpoint ends: with a success (the file of a
\* GET, the result of a PUT), with a non-success status and a body, or with
\* an exception and its message
ReplyOk(file, result) ==
    [kind |-> "ok", status |-> 200, body |-> EmptyString, file |-> file, result |-> result]
ReplyStatus(status, body) ==
    [kind |-> "status", status |-> status, body |-> body,
     file |-> [bytes |-> EmptyString, utf8 |-> TRUE, contentType |-> EmptyString],
     result |-> NoMeta]
ReplyThrow(message) ==
    [kind |-> "throw", status |-> 0, body |-> message,
     file |-> [bytes |-> EmptyString, utf8 |-> TRUE, contentType |-> EmptyString],
     result |-> NoMeta]

\* the preview handler reading its configuration before it looks at the query
PreviewAnswerConfigFirst(path, ref, e, reply) ==
    LET call == [NoUpstream EXCEPT !.made = TRUE, !.method = "GET", !.path = path,
                                   !.ref = (IF Falsy(ref) THEN <<"main">> ELSE ref)]
    IN  IF ~Configured(e) THEN <<ErrorResponse(500, <<"configuration">>), NoUpstream>>
        ELSE IF Falsy(path) THEN <<ErrorResponse(400, <<"missing path">>), NoUpstream>>
        ELSE IF reply.kind = "throw" THEN <<ErrorResponse(500, reply.body), call>>
        ELSE IF reply.kind = "status" THEN <<ErrorResponse(reply.status, reply.body), call>>
        ELSE <<OkResponse(Classify(path, reply.file)), call>>

\* handler(req, res) of /api/preview for req.query = {path, ref} under the
\* environment e, the upstream call (if made) ending as `reply`.
\* Yields <<answer, upstream request>>.
PreviewAnswer(path, ref, e, reply) ==
    LET call == [NoUpstream EXCEPT !.made = TRUE, !.method = "GET", !.path = path,
                                   !.ref = (IF Falsy(ref) THEN <<"main">> ELSE ref)]
    IN  IF Falsy(path) THEN <<ErrorResponse(400, <<"missing path">>), NoUpstream>>
        ELSE IF ~Configured(e) THEN <<ErrorResponse(500, <<"configuration">>), NoUpstream>>
        ELSE IF reply.kind = "throw" THEN <<ErrorResponse(500, reply.body), call>>
        ELSE IF reply.kind = "status" THEN <<ErrorResponse(reply.status, reply.body), call>>
        ELSE <<OkResponse(Classify(path, reply.file)), call>>

\* the upstream's answer to the GET of `path` in the session; `up` is how the
\* call ends: "ok", "status" (a non-success status) or "throw"
GetReply(path, up) ==
    IF up = "throw" THEN ReplyThrow(<<"fetch failed">>)
    ELSE IF up = "status" \/ path \notin DOMAIN repo THEN ReplyStatus(404, <<"Not Found">>)
    ELSE ReplyOk(repo[path], NoMeta)

\* the preview endpoint as the session calls it
PreviewHandler(path, ref, up) == PreviewAnswer(path, ref, env, GetReply(path, up))

\* --------------------------------------------------------- the save endpoint
\* the save handler with `!content` in place of `content === undefined`
SaveAnswerRejectsEmptyContent(method, body, e, reply) ==
    LET call == [NoUpstream EXCEPT !.made = TRUE, !.method = "PUT", !.path = body.path,
                                   !.ref = (IF Falsy(body.branch) THEN <<"main">> ELSE body.branch),
                                   !.message = body.message,
                                   !.content = Base64(body.content), !.sha = body.sha]
    IN  IF method # "POST" THEN <<ErrorResponse(405, <<"POST only">>), NoUpstream>>
        ELSE IF Falsy(body.path) \/ Falsy(body.message) \/ Falsy(body.content)
                \/ Falsy(body.sha)
             THEN <<ErrorResponse(400, <<"missing parameter">>), NoUpstream>>
        ELSE IF ~Configured(e) THEN <<ErrorResponse(500, <<"configuration">>), NoUpstream>>
        ELSE IF reply.kind = "throw" THEN <<ErrorResponse(500, reply.body), call>>
        ELSE IF reply.kind = "status" THEN <<ErrorResponse(reply.status, reply.body), call>>
        ELSE <<OkResponse(reply.result), call>>

\* the save handler answering every upstream failure with 500
SaveAnswerMasksStatus(method, body, e, reply) ==
    LET call == [NoUpstream EXCEPT !.made = TRUE, !.method = "PUT", !.path = body.path,
                                   !.ref = (IF Falsy(body.branch) THEN <<"main">> ELSE body.branch),
                                   !.message = body.message,
                                   !.content = Base64(body.content), !.sha = body.sha]
    IN  IF method # "POST" THEN <<ErrorResponse(405, <<"POST only">>), NoUpstream>>
        ELSE IF Falsy(body.path) \/ Falsy(body.message) \/ body.content = UNDEFINED
                \/ Falsy(body.sha)
             THEN <<ErrorResponse(400, <<"missing parameter">>), NoUpstream>>
        ELSE IF ~Configured(e) THEN <<ErrorResponse(500, <<"configuration">>), NoUpstream>>
        ELSE IF reply.kind # "ok" THEN <<ErrorResponse(500, reply.body), call>>
        ELSE <<OkResponse(reply.result), call>>

\* handler(req, res) of /api/save for req.method and req.body under the
\* environment e, the upstream PUT (if made) ending as `reply`.
\* Yields <<answer, upstream request>>.
SaveAnswer(method, body, e, reply) ==
    LET call == [NoUpstream EXCEPT !.made = TRUE, !.method = "PUT", !.path = body.path,
                                   !.ref = (IF Falsy(body.branch) THEN <<"main">> ELSE body.branch),
                                   !.message = body.message,
                                   !.content = Base64(body.content), !.sha = body.sha]
    IN  IF method # "POST" THEN <<ErrorResponse(405, <<"POST only">>), NoUpstream>>
        ELSE IF Falsy(body.path) \/ Falsy(body.message) \/ body.content = UNDEFINED
                \/ Falsy(body.sha)
             THEN <<ErrorResponse(400, <<"missing parameter">>), NoUpstream>>
        ELSE IF ~Configured(e) THEN <<ErrorResponse(500, <<"configuration">>), NoUpstream>>
        ELSE IF reply.kind = "throw" THEN <<ErrorResponse(500, reply.body), call>>
        ELSE IF reply.kind = "status" THEN <<ErrorResponse(reply.status, reply.body), call>>
        ELSE <<OkResponse(reply.result), call>>

\* the upstream's answer to the PUT in the session; `up` is how the call
\* ends: "ok", "status" (409, the revision is stale) or "throw"
PutReply(up) ==
    IF up = "throw" THEN ReplyThrow(<<"fetch failed">>)
    ELSE IF up = "status" THEN ReplyStatus(409, <<"sha mismatch">>)
    ELSE ReplyOk([bytes |-> EmptyString, utf8 |-> TRUE, contentType |-> EmptyString], NoMeta)

\* the save endpoint as the session calls it
SaveHandler(method, body, up) == SaveAnswer(method, body, env, PutReply(up))

VARIABLES
    flatList,   \* buildTree's argument: sequence of entries; an item is its index
    built,      \* number of items forEach has visited
    tree,       \* the `tree` array: sequence of item indices
    children,   \* item index -> its `children` array (sequence of item indices)
    map,        \* the `map` object's own properties: path -> item index
    threw       \* TRUE once the forEach callback raised a TypeError

treeVars == <<flatList, built, tree, children, map, threw>>

VARIABLES
    rendered,   \* Home has rendered with the props of getServerSideProps
    expanded,   \* mounted TreeNode (item index) -> its `expanded` state
    toggled,    \* mounted TreeNode -> it was toggled an odd number of times
    lost        \* history: nodes unmounted while toggled away from their initial flag

navVars == <<rendered, expanded, toggled, lost>>

\* BuildItem with the `else` of `if (!item.path.includes('/'))` lost: a nested
\* item is pushed to `tree` as well as to its parent.
BuildItemAlsoRoot(i) ==
    LET item == flatList[i]
        ch1  == [children EXCEPT ![i] = <<>>]
        map1 == [p \in (DOMAIN map) \cup {item.path} |->
                    IF p = item.path THEN i ELSE map[p]]
        parentPath == ParentPath(item.path)
    IN  IF parentPath \in DOMAIN map1 /\ Includes(item.path, "/")
        THEN <<Append(tree, i), [ch1 EXCEPT ![map1[parentPath]] = Append(@, i)], map1, FALSE>>
        ELSE <<Append(tree, i), ch1, map1, FALSE>>

\* One forEach callback, for item i, as the new <<tree, children, map, threw>>.
BuildItem(i) ==
    LET item == flatList[i]
        \* item.children = []
        ch1  == [children EXCEPT ![i] = <<>>]
        \* map[item.path] = item
        map1 == [p \in (DOMAIN map) \cup {item.path} |->
                    IF p = item.path THEN i ELSE map[p]]
        parentPath == ParentPath(item.path)
    IN  IF ~Includes(item.path, "/") THEN <<Append(tree, i), ch1, map1, FALSE>>
        ELSE IF parentPath \in DOMAIN map1
             \* map[parentPath].children.push(item)
             THEN <<tree, [ch1 EXCEPT ![map1[parentPath]] = Append(@, i)], map1, FALSE>>
        ELSE IF parentPath \in ObjectPrototypeKeys
             \* map[parentPath] is truthy but has no children: push on undefined
             THEN <<tree, ch1, map1, TRUE>>
        \* parent not found: top level
        ELSE <<Append(tree, i), ch1, map1, FALSE>>

\* flatList.forEach: the callback for the next item; an exception ends the loop
BuildStep ==
    /\ pc = "build"
    /\ ~threw
    /\ built < Len(flatList)
    /\ LET r == BuildItem(built + 1)
       IN  /\ tree' = r[1]
           /\ children' = r[2]
           /\ map' = r[3]
           /\ threw' = r[4]
    /\ built' = built + 1
    /\ UNCHANGED flatList
    /\ UNCHANGED <<sessionVars, navVars>>

\* buildTree has returned `tree`
Returned == ~threw /\ built = Len(flatList)

\* ------------------------------------------------------------------ the page
\* a fetch the page has issued: which handler awaits it, the path that handler
\* captured, the JSON body posted, the answer once the server has produced it
Request(kind, path, body) ==
    [kind |-> kind, path |-> path, body |-> body, answered |-> FALSE,
     res |-> NoResponse, upstream |-> NoUpstream]

\* a request joins the outstanding ones; one leaves when its continuation runs
Issued(requests, req) == requests (+) SetToBag({req})
Settled(requests, req) == requests (-) SetToBag({req})
Outstanding == BagToSet(inflight)

\* the page is rendered once the bootstrap has the tree
PageRendered == Returned /\ rendered

\* the blob nodes of the rendered tree
Files == { flatList[i].path : i \in { j \in 1..Len(flatList) : flatList[j].type = "blob" } }

\* const canEdit = previewMeta && !previewMeta.isBinary && !previewMeta.isImage
canEdit == previewMeta.present /\ ~previewMeta.isBinary /\ ~previewMeta.isImage

\* what the right panel shows: `loadingPreview ? ... : isEditing ? editor : preview`
EditorShown == PageRendered /\ ~loadingPreview /\ isEditing
PreviewShown == PageRendered /\ ~loadingPreview /\ ~isEditing
VisualMounted == EditorShown /\ editorMode = "visual"

\* room for one more fetch; a commit under way may still issue its re-fetch
Room(n) == BagCardinality(inflight) + (IF saving THEN 1 ELSE 0) + n <= MaxInFlight

\* The visual editor's innerHTML after a handler: React mounts it with
\* marked(editContent) and keeps the user's DOM edits while it stays mounted.
Rerender(kept) ==
    visualHtml' =
        IF ~loadingPreview' /\ isEditing' /\ editorMode' = "visual"
        THEN IF VisualMounted /\ editContent' = editContent THEN kept
             ELSE Marked(editContent')
        ELSE EmptyString

\* ------------------------------------------------------------ the tree view
\* routeParts.length > 2 ? routeParts.slice(2).join('/') : ""
InitialPath(route) ==
    LET routeParts == Split(route, "/")
    IN  IF Len(routeParts) > 2
        THEN Join(SubSeq(routeParts, 3, Len(routeParts)), "/")
        ELSE EmptyString

\* the initialPath prop of Home and of every TreeNode
initialPath == InitialPath(env.route)

\* String.prototype.startsWith
StartsWith(s, prefix) ==
    Len(prefix) <= Len(s) /\ SubSeq(s, 1, Len(prefix)) = prefix

\* shouldExpand with the '/' of `node.path + '/'` lost
ShouldExpandBarePrefix(i) ==
    LET node == flatList[i]
    IN  /\ ~Falsy(initialPath)
        /\ node.type = "tree"
        /\ (initialPath = node.path \/ StartsWith(initialPath, node.path))

\* initialPath && node.type === 'tree' &&
\*   (initialPath === node.path || initialPath.startsWith(node.path + '/'))
ShouldExpand(i) ==
    LET node == flatList[i]
    IN  /\ ~Falsy(initialPath)
        /\ node.type = "tree"
        /\ (initialPath = node.path \/ StartsWith(initialPath, node.path \o <<"/">>))

\* the listing of a repository with nested directories, as the upstream
\* orders it (by path)
NavListing ==
    << [path |-> <<"a">>, type |-> "tree"],
       [path |-> <<"a", "/", "b", ".", "md">>, type |-> "blob"],
       [path |-> <<"a", "/", "c">>, type |-> "tree"],
       [path |-> <<"a", "/", "c", "/", "d", ".", "txt">>, type |-> "blob"],
       [path |-> <<"a", "/", "e">>, type |-> "tree"] >>

\* values of GITHUB_ROUTE: the repository alone, with a file below a/c, with
\* the directory a/c itself, with a path that a/c is a bare string prefix of
NavRoutes ==
    { <<"owner", "/", "repo">>,
      <<"owner", "/", "repo", "/", "a", "/", "c", "/", "d", ".", "txt">>,
      <<"owner", "/", "repo", "/", "a", "/", "c">>,
      <<"owner", "/", "repo", "/", "a", "/", "c", "d">> }

\* the order String.prototype.localeCompare gives the tokens (punctuation
\* before letters, letters alphabetically)
CollationOrder ==
    << ".", "/", "a", "b", "bin", "c", "constructor", "d", "e", "f", "md", "p",
       "PNG", "txt", "x" >>

Rank(token) == CHOOSE k \in 1..Len(CollationOrder) : CollationOrder[k] = token

\* a.localeCompare(b): negative, zero or positive
RECURSIVE LocaleCompare(_, _)
LocaleCompare(a, b) ==
    IF Len(a) = 0 /\ Len(b) = 0 THEN 0
    ELSE IF Len(a) = 0 THEN -1
    ELSE IF Len(b) = 0 THEN 1
    ELSE IF Rank(Head(a)) < Rank(Head(b)) THEN -1
    ELSE IF Rank(Head(a)) > Rank(Head(b)) THEN 1
    ELSE LocaleCompare(Tail(a), Tail(b))

\* CompareNodes without the test of the types: by path alone
CompareNodesByPath(i, j) == LocaleCompare(flatList[i].path, flatList[j].path)

\* the comparator of node.children.sort: directories first, then by path
CompareNodes(i, j) ==
    IF flatList[i].type = flatList[j].type
    THEN LocaleCompare(flatList[i].path, flatList[j].path)
    ELSE IF flatList[i].type = "tree" THEN -1 ELSE 1

\* Array.prototype.sort with that comparator (stable)
RECURSIVE InsertNode(_, _)
InsertNode(sorted, i) ==
    IF Len(sorted) = 0 THEN <<i>>
    ELSE IF CompareNodes(i, Head(sorted)) < 0 THEN <<i>> \o sorted
    ELSE <<Head(sorted)>> \o InsertNode(Tail(sorted), i)

RECURSIVE SortChildren(_)
SortChildren(nodes) ==
    IF Len(nodes) = 0 THEN <<>>
    ELSE InsertNode(SortChildren(Pop(nodes)), Last(nodes))

\* the children of node i as a set
ChildrenOf(i) == { children[i][k] : k \in 1..Len(children[i]) }

\* node i and everything below it
RECURSIVE Subtree(_)
Subtree(i) == {i} \cup UNION { Subtree(c) : c \in ChildrenOf(i) }

\* the TreeNodes React mounts when it mounts node i: i itself and, where
\* useState(!!shouldExpand) starts true, the nodes mounted with its children
RECURSIVE MountedWith(_)
MountedWith(i) ==
    {i} \cup (IF ShouldExpand(i) THEN UNION { MountedWith(c) : c \in ChildrenOf(i) } ELSE {})

\* the `children` arrays after a render in which `shown` is the expansion
\* state: every expanded node's render sorts its array in place
SortedWhereExpanded(shown) ==
    [j \in DOMAIN children |->
        IF j \in DOMAIN shown /\ shown[j] THEN SortChildren(children[j]) ELSE children[j]]

\* getServerSideProps has returned its props
PropsReturned == (pc = "build" /\ Returned) \/ pc = "error"

\* the treeData prop: the built tree; error props carry none (no root to map)
treeData == IF pc = "error" THEN <<>> ELSE tree

\* Home's first render: treeData.map mounts a TreeNode per root
RenderHome ==
    /\ PropsReturned /\ ~rendered
    /\ rendered' = TRUE
    /\ expanded' = [j \in UNION { MountedWith(treeData[k]) : k \in 1..Len(treeData) } |->
                      ShouldExpand(j)]
    /\ toggled' = [j \in DOMAIN expanded' |-> FALSE]
    /\ children' = SortedWhereExpanded(expanded')
    /\ UNCHANGED <<flatList, built, tree, map, threw, lost>>
    /\ UNCHANGED sessionVars

\* the expansion state after setExpanded(!expanded) on node i and the render
\* that follows: collapsing unmounts the nodes below i, expanding mounts them
Flipped(i) ==
    IF expanded[i]
    THEN [j \in (DOMAIN expanded) \ (Subtree(i) \ {i}) |->
             IF j = i THEN FALSE ELSE expanded[j]]
    ELSE LET below == UNION { MountedWith(c) : c \in ChildrenOf(i) }
         IN  [j \in (DOMAIN expanded) \cup below |->
                 IF j = i THEN TRUE
                 ELSE IF j \in below THEN ShouldExpand(j)
                 ELSE expanded[j]]

\* TreeNode.handleClick where a node on the way to initialPath stays expanded
ToggleNodePinned(i) ==
    /\ PageRendered /\ i \in DOMAIN expanded
    /\ flatList[i].type = "tree"
    /\ expanded' = IF ShouldExpand(i) THEN expanded ELSE Flipped(i)
    /\ toggled' = [j \in DOMAIN expanded' |->
                     IF j = i THEN ~toggled[i]
                     ELSE IF j \in DOMAIN toggled THEN toggled[j] ELSE FALSE]
    /\ children' = SortedWhereExpanded(expanded')
    /\ lastOp' = "click"
    /\ UNCHANGED <<selectedPath, preview, previewMeta, loadingPreview, isEditing,
                   editorMode, editContent, fileSha, commitMsg, saving>>
    /\ Rerender(visualHtml)
    /\ UNCHANGED <<serverVars, env, repo, inflight, rendered, flatList, built, tree, map, threw>>

\* TreeNode.handleClick where expanding a node collapses the other ones
ToggleNodeAccordion(i) ==
    /\ PageRendered /\ i \in DOMAIN expanded
    /\ flatList[i].type = "tree"
    /\ expanded' = [j \in DOMAIN Flipped(i) |-> IF j = i THEN ~expanded[i] ELSE FALSE]
    /\ toggled' = [j \in DOMAIN expanded' |->
                     IF j = i THEN ~toggled[i]
                     ELSE IF j \in DOMAIN toggled THEN toggled[j] ELSE FALSE]
    /\ children' = SortedWhereExpanded(expanded')
    /\ lastOp' = "click"
    /\ UNCHANGED <<selectedPath, preview, previewMeta, loadingPreview, isEditing,
                   editorMode, editContent, fileSha, commitMsg, saving>>
    /\ Rerender(visualHtml)
    /\ UNCHANGED <<serverVars, env, repo, inflight, rendered, flatList, built, tree, map, threw>>

\* TreeNode.handleClick with the flags of the nodes below kept by the parent:
\* collapsing hides them, expanding shows them as they were
ToggleNodeKeepsBelow(i) ==
    /\ PageRendered /\ i \in DOMAIN expanded
    /\ flatList[i].type = "tree"
    /\ expanded' = [j \in DOMAIN Flipped(i) \cup DOMAIN expanded |->
                       IF j = i THEN ~expanded[i]
                       ELSE IF j \in DOMAIN expanded THEN expanded[j]
                       ELSE ShouldExpand(j)]
    /\ toggled' = [j \in DOMAIN expanded' |->
                     IF j = i THEN ~toggled[i]
                     ELSE IF j \in DOMAIN toggled THEN toggled[j] ELSE FALSE]
    /\ children' = SortedWhereExpanded(expanded')
    /\ lastOp' = "click"
    /\ UNCHANGED <<selectedPath, preview, previewMeta, loadingPreview, isEditing,
                   editorMode, editContent, fileSha, commitMsg, saving>>
    /\ Rerender(visualHtml)
    /\ UNCHANGED <<serverVars, env, repo, inflight, rendered, flatList, built, tree, map, threw>>

\* TreeNode.handleClick on a tree node -> setExpanded(!expanded)
ToggleNode(i) ==
    /\ PageRendered /\ i \in DOMAIN expanded
    /\ flatList[i].type = "tree"
    /\ expanded' = Flipped(i)
    /\ toggled' = [j \in DOMAIN expanded' |->
                     IF j = i THEN ~toggled[i]
                     ELSE IF j \in DOMAIN toggled THEN toggled[j] ELSE FALSE]
    /\ children' = SortedWhereExpanded(expanded')
    /\ lastOp' = "click"
    /\ UNCHANGED <<selectedPath, preview, previewMeta, loadingPreview, isEditing,
                   editorMode, editContent, fileSha, commitMsg, saving>>
    /\ Rerender(visualHtml)
    /\ UNCHANGED <<serverVars, env, repo, inflight, rendered, flatList, built, tree, map, threw>>

\* handleClick on a blob node collapsing the tree as it selects the file
ClickFileCollapsing(path) ==
    /\ PageRendered /\ Room(1)
    /\ \E i \in DOMAIN expanded : flatList[i].path = path /\ flatList[i].type = "blob"
    /\ selectedPath' = path
    /\ loadingPreview' = TRUE
    /\ preview' = EmptyString
    /\ previewMeta' = NoMeta
    /\ inflight' = Issued(inflight, Request("select", path, NoBody))
    /\ lastOp' = "click"
    /\ expanded' = [j \in DOMAIN expanded |-> FALSE]
    /\ UNCHANGED <<isEditing, editorMode, editContent, fileSha, commitMsg, saving>>
    /\ Rerender(visualHtml)
    /\ UNCHANGED <<serverVars, env, repo, treeVars, rendered, toggled, lost>>

\* handleFileSelect up to its await
SelectStart(path) ==
    /\ selectedPath' = path
    /\ loadingPreview' = TRUE
    /\ preview' = EmptyString
    /\ previewMeta' = NoMeta

\* handleClick on a blob node where a click on the selected file closes it
ClickFileClosesSame(path) ==
    /\ PageRendered /\ Room(1)
    /\ \E i \in DOMAIN expanded : flatList[i].path = path /\ flatList[i].type = "blob"
    /\ IF path = selectedPath
       THEN /\ selectedPath' = NULL
            /\ UNCHANGED <<loadingPreview, inflight>>
       ELSE /\ selectedPath' = path
            /\ loadingPreview' = TRUE
            /\ inflight' = Issued(inflight, Request("select", path, NoBody))
    /\ preview' = EmptyString
    /\ previewMeta' = NoMeta
    /\ lastOp' = "click"
    /\ UNCHANGED <<isEditing, editorMode, editContent, fileSha, commitMsg, saving>>
    /\ Rerender(visualHtml)
    /\ UNCHANGED <<serverVars, env, repo, treeVars, navVars>>

\* TreeNode.handleClick on a blob node -> handleFileSelect(node)
ClickFile(path) ==
    /\ PageRendered
    /\ \E i \in DOMAIN expanded : flatList[i].path = path /\ flatList[i].type = "blob"
    /\ SelectStart(path)
    /\ inflight' = Issued(inflight, Request("select", path, NoBody))
    /\ lastOp' = "click"
    /\ UNCHANGED <<isEditing, editorMode, editContent, fileSha, commitMsg, saving>>
    /\ Rerender(visualHtml)
    /\ UNCHANGED <<serverVars, env, repo, treeVars, navVars>>

\* handleFileSelect after its await, applying an answer only while the path it
\* was issued for is still the selected one
SelectResponseFenced(req) ==
    /\ req \in Outstanding /\ req.kind = "select" /\ req.answered
    /\ LET res == req.res
       IN  IF req.path # selectedPath
           THEN /\ UNCHANGED <<preview, previewMeta, loadingPreview, isEditing>>
                /\ lastOp' = "selectFailed"
           ELSE /\ IF res.thrown \/ ~Ok(res)
                   THEN /\ preview' = <<"Error: ">> \o res.text
                        /\ UNCHANGED previewMeta
                        /\ lastOp' = "selectFailed"
                   ELSE /\ preview' = res.data.content
                        /\ previewMeta' = res.data
                        /\ lastOp' = "selectOk"
                /\ loadingPreview' = FALSE
                /\ isEditing' = FALSE
    /\ inflight' = Settled(inflight, req)
    /\ UNCHANGED <<selectedPath, editorMode, editContent, fileSha, commitMsg, saving>>
    /\ Rerender(visualHtml)
    /\ UNCHANGED <<serverVars, env, repo, treeVars, navVars>>

\* handleFileSelect leaving the editor only when its fetch succeeded
SelectResponseKeepsMode(req) ==
    /\ req \in Outstanding /\ req.kind = "select" /\ req.answered
    /\ LET res == req.res
       IN  /\ IF res.thrown \/ ~Ok(res)
              THEN /\ preview' = <<"Error: ">> \o res.text
                   /\ UNCHANGED <<previewMeta, isEditing>>
                   /\ lastOp' = "selectFailed"
              ELSE /\ preview' = res.data.content
                   /\ previewMeta' = res.data
                   /\ isEditing' = FALSE
                   /\ lastOp' = "selectOk"
    /\ loadingPreview' = FALSE
    /\ inflight' = Settled(inflight, req)
    /\ UNCHANGED <<selectedPath, editorMode, editContent, fileSha, commitMsg, saving>>
    /\ Rerender(visualHtml)
    /\ UNCHANGED <<serverVars, env, repo, treeVars, navVars>>

\* handleFileSelect after its await
SelectResponse(req) ==
    /\ req \in Outstanding /\ req.kind = "select" /\ req.answered
    /\ LET res == req.res
       IN  /\ IF res.thrown \/ ~Ok(res)
              THEN /\ preview' = <<"Error: ">> \o res.text
                   /\ UNCHANGED previewMeta
                   /\ lastOp' = "selectFailed"
              ELSE /\ preview' = res.data.content
                   /\ previewMeta' = res.data
                   /\ lastOp' = "selectOk"
    /\ loadingPreview' = FALSE
    /\ isEditing' = FALSE
    /\ inflight' = Settled(inflight, req)
    /\ UNCHANGED <<selectedPath, editorMode, editContent, fileSha, commitMsg, saving>>
    /\ Rerender(visualHtml)
    /\ UNCHANGED <<serverVars, env, repo, treeVars, navVars>>

\* the "edit file" button -> handleEdit up to its await
ClickEdit ==
    /\ PreviewShown /\ canEdit /\ Room(1)
    /\ IF Falsy(selectedPath)
       THEN UNCHANGED <<loadingPreview, inflight, lastOp>>
       ELSE /\ loadingPreview' = TRUE
            /\ inflight' = Issued(inflight, Request("edit", selectedPath, NoBody))
            /\ lastOp' = "click"
    /\ UNCHANGED <<selectedPath, preview, previewMeta, isEditing, editorMode,
                   editContent, fileSha, commitMsg, saving>>
    /\ Rerender(visualHtml)
    /\ UNCHANGED <<serverVars, env, repo, treeVars, navVars>>

\* handleEdit without its `data.isBinary || data.isImage` refusal
EditResponseNoKindCheck(req) ==
    /\ req \in Outstanding /\ req.kind = "edit" /\ req.answered
    /\ LET res == req.res
       IN  IF res.thrown \/ ~Ok(res)
           THEN /\ lastOp' = "editFailed"
                /\ UNCHANGED <<editContent, fileSha, isEditing, editorMode>>
           ELSE /\ editContent' = res.data.content
                /\ fileSha' = res.data.sha
                /\ isEditing' = TRUE
                /\ editorMode' = "source"
                /\ lastOp' = IF res.data.isBinary \/ res.data.isImage
                             THEN "editNotEditable" ELSE "editOk"
    /\ loadingPreview' = FALSE
    /\ inflight' = Settled(inflight, req)
    /\ UNCHANGED <<selectedPath, preview, previewMeta, commitMsg, saving>>
    /\ Rerender(visualHtml)
    /\ UNCHANGED <<serverVars, env, repo, treeVars, navVars>>

\* handleEdit taking the draft from the preview it already holds
EditResponseFromPreview(req) ==
    /\ req \in Outstanding /\ req.kind = "edit" /\ req.answered
    /\ LET res == req.res
       IN  IF res.thrown \/ ~Ok(res)
           THEN /\ lastOp' = "editFailed"
                /\ UNCHANGED <<editContent, fileSha, isEditing, editorMode>>
           ELSE IF res.data.isBinary \/ res.data.isImage
           THEN /\ lastOp' = "editNotEditable"
                /\ UNCHANGED <<editContent, fileSha, isEditing, editorMode>>
           ELSE /\ editContent' = preview
                /\ fileSha' = res.data.sha
                /\ isEditing' = TRUE
                /\ editorMode' = "source"
                /\ lastOp' = "editOk"
    /\ loadingPreview' = FALSE
    /\ inflight' = Settled(inflight, req)
    /\ UNCHANGED <<selectedPath, preview, previewMeta, commitMsg, saving>>
    /\ Rerender(visualHtml)
    /\ UNCHANGED <<serverVars, env, repo, treeVars, navVars>>

\* handleEdit returning from `if (!res.ok)` without setLoadingPreview(false)
EditResponseStaysLoading(req) ==
    /\ req \in Outstanding /\ req.kind = "edit" /\ req.answered
    /\ LET res == req.res
       IN  IF ~res.thrown /\ ~Ok(res)
           THEN /\ lastOp' = "editFailed"
                /\ UNCHANGED <<editContent, fileSha, isEditing, editorMode, loadingPreview>>
           ELSE IF res.thrown
           THEN /\ lastOp' = "editFailed"
                /\ loadingPreview' = FALSE
                /\ UNCHANGED <<editContent, fileSha, isEditing, editorMode>>
           ELSE IF res.data.isBinary \/ res.data.isImage
           THEN /\ lastOp' = "editNotEditable"
                /\ loadingPreview' = FALSE
                /\ UNCHANGED <<editContent, fileSha, isEditing, editorMode>>
           ELSE /\ editContent' = res.data.content
                /\ fileSha' = res.data.sha
                /\ isEditing' = TRUE
                /\ editorMode' = "source"
                /\ loadingPreview' = FALSE
                /\ lastOp' = "editOk"
    /\ inflight' = Settled(inflight, req)
    /\ UNCHANGED <<selectedPath, preview, previewMeta, commitMsg, saving>>
    /\ Rerender(visualHtml)
    /\ UNCHANGED <<serverVars, env, repo, treeVars, navVars>>

\* handleEdit after its await
EditResponse(req) ==
    /\ req \in Outstanding /\ req.kind = "edit" /\ req.answered
    /\ LET res == req.res
       IN  IF res.thrown \/ ~Ok(res)
           THEN /\ lastOp' = "editFailed"
                /\ UNCHANGED <<editContent, fileSha, isEditing, editorMode>>
           ELSE IF res.data.isBinary \/ res.data.isImage
           THEN /\ lastOp' = "editNotEditable"
                /\ UNCHANGED <<editContent, fileSha, isEditing, editorMode>>
           ELSE /\ editContent' = res.data.content
                /\ fileSha' = res.data.sha
                /\ isEditing' = TRUE
                /\ editorMode' = "source"
                /\ lastOp' = "editOk"
    /\ loadingPreview' = FALSE
    /\ inflight' = Settled(inflight, req)
    /\ UNCHANGED <<selectedPath, preview, previewMeta, commitMsg, saving>>
    /\ Rerender(visualHtml)
    /\ UNCHANGED <<serverVars, env, repo, treeVars, navVars>>

\* toggleEditorMode without the Turndown branch: back to source, draft kept
ToggleEditorModeKeepsDraft ==
    /\ EditorShown
    /\ editorMode' = IF editorMode = "source" THEN "visual" ELSE "source"
    /\ lastOp' = "toggle"
    /\ UNCHANGED <<selectedPath, preview, previewMeta, loadingPreview, isEditing,
                   editContent, fileSha, commitMsg, saving>>
    /\ Rerender(visualHtml)
    /\ UNCHANGED <<serverVars, env, repo, inflight, treeVars, navVars>>

\* the mode button of the editor -> toggleEditorMode
ToggleEditorMode ==
    /\ EditorShown
    /\ IF editorMode = "source"
       THEN /\ editorMode' = "visual"
            /\ UNCHANGED editContent
       ELSE /\ editContent' = Turndown(visualHtml)
            /\ editorMode' = "source"
    /\ lastOp' = "toggle"
    /\ UNCHANGED <<selectedPath, preview, previewMeta, loadingPreview, isEditing,
                   fileSha, commitMsg, saving>>
    /\ Rerender(visualHtml)
    /\ UNCHANGED <<serverVars, env, repo, inflight, treeVars, navVars>>

\* Editor onValueChange -> setEditContent(code)
TypeSource(code) ==
    /\ EditorShown /\ editorMode = "source" /\ code \in TypedSource
    /\ editContent' = code
    /\ lastOp' = "type"
    /\ UNCHANGED <<selectedPath, preview, previewMeta, loadingPreview, isEditing,
                   editorMode, fileSha, commitMsg, saving>>
    /\ Rerender(visualHtml)
    /\ UNCHANGED <<serverVars, env, repo, inflight, treeVars, navVars>>

\* typing in the contentEditable visual editor: onInput does nothing
TypeVisual(html) ==
    /\ VisualMounted /\ html \in TypedVisual
    /\ lastOp' = "type"
    /\ UNCHANGED <<selectedPath, preview, previewMeta, loadingPreview, isEditing,
                   editorMode, editContent, fileSha, commitMsg, saving>>
    /\ Rerender(html)
    /\ UNCHANGED <<serverVars, env, repo, inflight, treeVars, navVars>>

\* the commit message input -> setCommitMsg(e.target.value)
TypeMessage(message) ==
    /\ EditorShown /\ message \in TypedMessage
    /\ commitMsg' = message
    /\ lastOp' = "type"
    /\ UNCHANGED <<selectedPath, preview, previewMeta, loadingPreview, isEditing,
                   editorMode, editContent, fileSha, saving>>
    /\ Rerender(visualHtml)
    /\ UNCHANGED <<serverVars, env, repo, inflight, treeVars, navVars>>

\* JSON.stringify({path, message, content, sha, branch}) as req.body reads it:
\* null stays null, an undefined value drops the key, which then reads undefined
CommitBody ==
    [path |-> selectedPath, message |-> commitMsg, content |-> editContent,
     sha |-> fileSha, branch |-> DefaultBranch]

\* handleCommit behind a commit button that stays enabled while saving
ClickCommitWhileSaving ==
    /\ EditorShown
    /\ IF Falsy(commitMsg)
       THEN /\ lastOp' = "commitRejected"
            /\ UNCHANGED <<saving, inflight>>
       ELSE /\ BagCardinality(inflight) < MaxInFlight
            /\ saving' = TRUE
            /\ inflight' = Issued(inflight, Request("commit", selectedPath, CommitBody))
            /\ lastOp' = "click"
    /\ UNCHANGED <<selectedPath, preview, previewMeta, loadingPreview, isEditing,
                   editorMode, editContent, fileSha, commitMsg>>
    /\ Rerender(visualHtml)
    /\ UNCHANGED <<serverVars, env, repo, treeVars, navVars>>

\* handleCommit without its `if (!commitMsg)` return
ClickCommitAnyMessage ==
    /\ EditorShown /\ ~saving
    /\ Room(2)
    /\ saving' = TRUE
    /\ inflight' = Issued(inflight, Request("commit", selectedPath, CommitBody))
    /\ lastOp' = IF Falsy(commitMsg) THEN "commitRejected" ELSE "click"
    /\ UNCHANGED <<selectedPath, preview, previewMeta, loadingPreview, isEditing,
                   editorMode, editContent, fileSha, commitMsg>>
    /\ Rerender(visualHtml)
    /\ UNCHANGED <<serverVars, env, repo, treeVars, navVars>>

\* the commit button (disabled while saving) -> handleCommit up to its await
ClickCommit ==
    /\ EditorShown /\ ~saving
    /\ IF Falsy(commitMsg)
       THEN /\ lastOp' = "commitRejected"
            /\ UNCHANGED <<saving, inflight>>
       ELSE /\ Room(2)
            /\ saving' = TRUE
            /\ inflight' = Issued(inflight, Request("commit", selectedPath, CommitBody))
            /\ lastOp' = "click"
    /\ UNCHANGED <<selectedPath, preview, previewMeta, loadingPreview, isEditing,
                   editorMode, editContent, fileSha, commitMsg>>
    /\ Rerender(visualHtml)
    /\ UNCHANGED <<serverVars, env, repo, treeVars, navVars>>

\* handleCommit leaving the editor and dropping the draft on a failed commit too
CommitResponseDropsDraft(req) ==
    /\ req \in Outstanding /\ req.kind = "commit" /\ req.answered
    /\ LET res == req.res
           path == req.path
       IN  IF res.thrown \/ ~Ok(res)
           THEN /\ lastOp' = "commitFailed"
                /\ inflight' = Settled(inflight, req)
                /\ isEditing' = FALSE
                /\ editContent' = EmptyString
                /\ UNCHANGED <<selectedPath, preview, previewMeta, loadingPreview>>
           ELSE /\ isEditing' = FALSE
                /\ SelectStart(path)
                /\ inflight' = Issued(Settled(inflight, req), Request("select", path, NoBody))
                /\ lastOp' = "commitOk"
                /\ UNCHANGED editContent
    /\ saving' = FALSE
    /\ UNCHANGED <<editorMode, fileSha, commitMsg>>
    /\ Rerender(visualHtml)
    /\ UNCHANGED <<serverVars, env, repo, treeVars, navVars>>

\* handleCommit showing the draft as the preview instead of fetching again
CommitResponseOptimistic(req) ==
    /\ req \in Outstanding /\ req.kind = "commit" /\ req.answered
    /\ LET res == req.res
       IN  IF res.thrown \/ ~Ok(res)
           THEN /\ lastOp' = "commitFailed"
                /\ UNCHANGED <<preview, isEditing>>
           ELSE /\ isEditing' = FALSE
                /\ preview' = editContent
                /\ lastOp' = "commitOk"
    /\ inflight' = Settled(inflight, req)
    /\ saving' = FALSE
    /\ UNCHANGED <<selectedPath, previewMeta, loadingPreview, editorMode, editContent,
                   fileSha, commitMsg>>
    /\ Rerender(visualHtml)
    /\ UNCHANGED <<serverVars, env, repo, treeVars, navVars>>

\* handleCommit reloading the file selected when the answer arrives
CommitResponseCurrentPath(req) ==
    /\ req \in Outstanding /\ req.kind = "commit" /\ req.answered
    /\ LET res == req.res
       IN  IF res.thrown \/ ~Ok(res)
           THEN /\ lastOp' = "commitFailed"
                /\ inflight' = Settled(inflight, req)
                /\ UNCHANGED <<selectedPath, preview, previewMeta, loadingPreview, isEditing>>
           ELSE /\ isEditing' = FALSE
                /\ SelectStart(selectedPath)
                /\ inflight' = Issued(Settled(inflight, req),
                                      Request("select", selectedPath, NoBody))
                /\ lastOp' = "commitOk"
    /\ saving' = FALSE
    /\ UNCHANGED <<editorMode, editContent, fileSha, commitMsg>>
    /\ Rerender(visualHtml)
    /\ UNCHANGED <<serverVars, env, repo, treeVars, navVars>>

\* handleCommit after its await; on success it calls handleFileSelect
CommitResponse(req) ==
    /\ req \in Outstanding /\ req.kind = "commit" /\ req.answered
    /\ LET res == req.res
           path == req.path
       IN  IF res.thrown \/ ~Ok(res)
           THEN /\ lastOp' = "commitFailed"
                /\ inflight' = Settled(inflight, req)
                /\ UNCHANGED <<selectedPath, preview, previewMeta, loadingPreview, isEditing>>
           ELSE /\ isEditing' = FALSE
                /\ SelectStart(path)
                /\ inflight' = Issued(Settled(inflight, req), Request("select", path, NoBody))
                /\ lastOp' = "commitOk"
    /\ saving' = FALSE
    /\ UNCHANGED <<editorMode, editContent, fileSha, commitMsg>>
    /\ Rerender(visualHtml)
    /\ UNCHANGED <<serverVars, env, repo, treeVars, navVars>>

\* handleCancelEdit dropping the selection and the preview as well
ClickCancelDeselects ==
    /\ EditorShown
    /\ isEditing' = FALSE
    /\ editContent' = EmptyString
    /\ commitMsg' = EmptyString
    /\ fileSha' = NULL
    /\ selectedPath' = NULL
    /\ preview' = EmptyString
    /\ previewMeta' = NoMeta
    /\ lastOp' = "cancel"
    /\ UNCHANGED <<loadingPreview, editorMode, saving>>
    /\ Rerender(visualHtml)
    /\ UNCHANGED <<serverVars, env, repo, inflight, treeVars, navVars>>

\* the cancel button -> handleCancelEdit
ClickCancel ==
    /\ EditorShown
    /\ isEditing' = FALSE
    /\ editContent' = EmptyString
    /\ commitMsg' = EmptyString
    /\ fileSha' = NULL
    /\ lastOp' = "cancel"
    /\ UNCHANGED <<selectedPath, preview, previewMeta, loadingPreview, editorMode, saving>>
    /\ Rerender(visualHtml)
    /\ UNCHANGED <<serverVars, env, repo, inflight, treeVars, navVars>>

\* --------------------------------------------------------------- the server
\* how an upstream call can end: with the file, a failure status, an exception
UpstreamOutcomes == {"ok", "status", "throw"}
\* the ones the session draws from (the page treats every failure status alike)
SessionOutcomes == {"ok", "status"}

\* /api/preview handles a request of handleFileSelect or handleEdit
PreviewEndpoint(req) ==
    /\ req \in Outstanding /\ req.kind \in {"select", "edit"}
    /\ ~req.answered
    /\ \E up \in SessionOutcomes :
         LET r == PreviewHandler(req.path, DefaultBranch, up)
         IN  inflight' = Issued(Settled(inflight, req),
                               [req EXCEPT !.answered = TRUE, !.res = r[1], !.upstream = r[2]])
    /\ UNCHANGED <<serverVars, env, repo, pageVars, lastOp, treeVars, navVars>>

\* the upstream file after a PUT it accepted: the content as UTF-8 bytes
Written(file, content) == [file EXCEPT !.bytes = content, !.utf8 = TRUE]

\* /api/save handles the request of handleCommit
SaveEndpoint(req) ==
    /\ req \in Outstanding /\ req.kind = "commit"
    /\ ~req.answered
    /\ \E up \in SessionOutcomes :
         LET r == SaveHandler("POST", req.body, up)
         IN  /\ inflight' = Issued(Settled(inflight, req),
                                  [req EXCEPT !.answered = TRUE, !.res = r[1], !.upstream = r[2]])
             /\ repo' = IF Ok(r[1]) /\ req.body.path \in DOMAIN repo
                        THEN [repo EXCEPT ![req.body.path] =
                                  Written(@, req.body.content)]
                        ELSE repo
    /\ UNCHANGED <<serverVars, env, pageVars, lastOp, treeVars, navVars>>

\* the browser's fetch rejects: the request never reaches an endpoint
FetchRejects(req) ==
    /\ req \in Outstanding /\ ~req.answered
    /\ inflight' = Issued(Settled(inflight, req),
                          [req EXCEPT !.answered = TRUE, !.res = Rejected(<<"Failed to fetch">>)])
    /\ UNCHANGED <<serverVars, env, repo, pageVars, lastOp, treeVars, navVars>>

\* `await fetch("/api/save", ...)` seen from handleCommit alone: it resolves
\* with a success status or a failure status, whatever the endpoint is
SaveAnswers(req) ==
    /\ req \in Outstanding /\ req.kind = "commit"
    /\ ~req.answered
    /\ \E res \in {OkResponse(NoMeta), ErrorResponse(409, <<"sha mismatch">>)} :
         inflight' = Issued(Settled(inflight, req), [req EXCEPT !.answered = TRUE, !.res = res])
    /\ UNCHANGED <<serverVars, env, repo, pageVars, lastOp, treeVars, navVars>>

\* ------------------------------------------------- the endpoints, any client
\* no endpoint has handled a request
NoExchange ==
    [endpoint |-> "none", method |-> "none", path |-> UNDEFINED, ref |-> UNDEFINED,
     body |-> NoBody, reply |-> ReplyThrow(EmptyString), answer |-> NoResponse,
     upstream |-> NoUpstream]

\* process.env with and without GITHUB_USER_TOKEN and GITHUB_ROUTE
EndpointEnvs ==
    { [token |-> token, route |-> route] :
        token \in {UNDEFINED, <<"token">>},
        route \in {UNDEFINED, <<"owner", "/", "repo">>} }

\* req.query.path: absent, empty, one path per image extension, text and
\* other extensions, no extension, a dot in a directory name only
PreviewPaths ==
    { UNDEFINED, EmptyString, ImagePath, DocPath, BinPath,
      <<"x", ".", "jpg">>, <<"x", ".", "jpeg">>, <<"x", ".", "gif">>,
      <<"x", ".", "bmp">>, <<"x", ".", "webp">>,
      <<"notes">>, <<"a", ".", "b", "/", "c">> }

\* req.query.ref
PreviewRefs == { UNDEFINED, <<"dev">> }

\* files the upstream can deliver: content-type absent, text/plain, one with a
\* charset parameter, octet-stream, an image type; bytes UTF-8 or not
UpstreamFiles ==
    { [bytes |-> <<"bytes">>, utf8 |-> utf8, contentType |-> contentType] :
        utf8 \in BOOLEAN,
        contentType \in { EmptyString, <<"text/", "plain">>,
                          <<"application/json", ";", "charset", "=utf-8">>,
                          <<"application/octet-stream">>, <<"image/png">> } }

\* how the upstream GET can end
GetReplies ==
    { ReplyOk(file, NoMeta) : file \in UpstreamFiles }
    \cup { ReplyStatus(404, <<"Not Found">>),
           ReplyStatus(403, <<"{", "message", ":", "rate limit", "}">>),
           ReplyThrow(<<"ECONNRESET">>) }

\* req.method and req.body of a request to /api/save
SaveMethods == { "POST", "GET" }
SaveBodies ==
    { [path |-> path, message |-> message, content |-> content, sha |-> sha,
       branch |-> branch] :
        path \in {UNDEFINED, DocPath},
        message \in {UNDEFINED, EmptyString, <<"msg">>},
        content \in {UNDEFINED, EmptyString, <<"y">>},
        sha \in {UNDEFINED, NULL, <<"abc">>},
        branch \in {UNDEFINED, <<"dev">>} }

\* the JSON the upstream answers an accepted PUT with
CommitResult == [NoMeta EXCEPT !.present = TRUE, !.sha = <<"newsha">>]

\* how the upstream PUT can end
PutReplies ==
    { ReplyOk([bytes |-> EmptyString, utf8 |-> TRUE, contentType |-> EmptyString], CommitResult),
      ReplyStatus(409, <<"sha mismatch">>),
      ReplyStatus(422, <<"{", "message", ":", "invalid", "}">>),
      ReplyThrow(<<"ECONNRESET">>) }

\* /api/preview handles GET ?path=&ref= of any client
PreviewServes(path, ref, reply) ==
    /\ path \in PreviewPaths /\ ref \in PreviewRefs /\ reply \in GetReplies
    /\ LET r == PreviewAnswer(path, ref, env, reply)
       IN  served' = [endpoint |-> "preview", method |-> "GET", path |-> path, ref |-> ref,
                      body |-> NoBody, reply |-> reply, answer |-> r[1], upstream |-> r[2]]
    /\ UNCHANGED <<pc, calls, error, listing>>
    /\ UNCHANGED <<env, repo, pageVars, inflight, lastOp, treeVars, navVars>>

\* the props of the debug page: process.env.X || null for both variables
DebugProps(e) ==
    [GITHUB_USER_TOKEN |-> IF Falsy(e.token) THEN NULL ELSE e.token,
     GITHUB_ROUTE |-> IF Falsy(e.route) THEN NULL ELSE e.route]

\* the debug page is requested: its getServerSideProps returns { envVars }
\* and the page is delivered with these props
DebugServes ==
    /\ served' = [endpoint |-> "debug", method |-> "GET", path |-> UNDEFINED,
                  ref |-> UNDEFINED, body |-> NoBody, reply |-> ReplyThrow(EmptyString),
                  answer |-> OkResponse(DebugProps(env)), upstream |-> NoUpstream]
    /\ UNCHANGED <<pc, calls, error, listing>>
    /\ UNCHANGED <<env, repo, pageVars, inflight, lastOp, treeVars, navVars>>

\* /api/save handles a request of any client
SaveServes(method, body, reply) ==
    /\ method \in SaveMethods /\ body \in SaveBodies /\ reply \in PutReplies
    /\ LET r == SaveAnswer(method, body, env, reply)
       IN  served' = [endpoint |-> "save", method |-> method, path |-> body.path,
                      ref |-> body.branch, body |-> body, reply |-> reply,
                      answer |-> r[1], upstream |-> r[2]]
    /\ UNCHANGED <<pc, calls, error, listing>>
    /\ UNCHANGED <<env, repo, pageVars, inflight, lastOp, treeVars, navVars>>

\* ------------------------------------------------------------ specifications
\* the log of a bootstrap that has made its three calls and entered buildTree
CallsDone ==
    << [name |-> "repo", ok |-> TRUE], [name |-> "branch", ok |-> TRUE],
       [name |-> "tree", ok |-> TRUE], [name |-> "buildTree", ok |-> TRUE] >>

\* the bootstrap is in buildTree, no endpoint has been called
ServerStart ==
    /\ served = NoExchange
    /\ pc = "build"
    /\ calls = CallsDone
    /\ error = NULL
    /\ listing = <<>>

SessionStart ==
    /\ repo = InitialRepo
    /\ selectedPath = NULL
    /\ preview = EmptyString
    /\ previewMeta = NoMeta
    /\ loadingPreview = FALSE
    /\ isEditing = FALSE
    /\ editorMode = "source"
    /\ editContent = EmptyString
    /\ fileSha = NULL
    /\ commitMsg = EmptyString
    /\ saving = FALSE
    /\ visualHtml = EmptyString
    /\ inflight = EmptyBag
    /\ lastOp = "init"
    /\ rendered = FALSE
    /\ expanded = <<>>
    /\ toggled = <<>>
    /\ lost = {}
    /\ ServerStart

\* GITHUB_ROUTE names the repository and its directory a: initialPath is "a"
\* and the tree view opens with every file of the listing shown
SessionInit ==
    /\ env = [token |-> <<"token">>, route |-> <<"owner", "/", "repo", "/", "a">>]
    /\ SessionStart

vars == <<treeVars, sessionVars, navVars>>

\* all sequences over S of length at most n
SeqsUpTo(S, n) == UNION { [1..k -> S] : k \in 0..n }

\* buildTree entered: const tree = []; const map = {}
TreeEmpty ==
    /\ built = 0
    /\ tree = <<>>
    /\ children = [i \in 1..Len(flatList) |-> <<>>]
    /\ map = <<>>
    /\ threw = FALSE

\* buildTree on any listing
TreeInit ==
    /\ flatList \in SeqsUpTo(TreeEntries, MaxEntries)
    /\ TreeEmpty
    /\ SessionInit

TreeNext == BuildStep

TreeSpec == TreeInit /\ [][TreeNext]_vars

\* the session: bootstrap builds the tree of the repository, then the page
\* runs. The directories stay as the first render shows them: a toggle
\* changes nothing but the tree view (NavSpec), which the session reads only
\* to know which files can be clicked.
Init ==
    /\ flatList = RepoListing
    /\ TreeEmpty
    /\ SessionInit

PageNext ==
    \/ RenderHome
    \/ \E path \in Files : Room(1) /\ ClickFile(path)
    \/ ClickEdit
    \/ ToggleEditorMode
    \/ \E code \in TypedSource : TypeSource(code)
    \/ \E html \in TypedVisual : TypeVisual(html)
    \/ \E message \in TypedMessage : TypeMessage(message)
    \/ ClickCommit
    \/ ClickCancel
    \/ \E req \in Outstanding : SelectResponse(req)
    \/ \E req \in Outstanding : EditResponse(req)
    \/ \E req \in Outstanding : CommitResponse(req)
    \/ \E req \in Outstanding : PreviewEndpoint(req)
    \/ \E req \in Outstanding : FetchRejects(req)

\* the page with both endpoints and the upstream
Next ==
    \/ BuildStep
    \/ PageNext
    \/ \E req \in Outstanding : SaveEndpoint(req)

Spec == Init /\ [][Next]_vars

\* the page with the preview endpoint, its save request answered either way
ClientNext ==
    \/ BuildStep
    \/ PageNext
    \/ \E req \in Outstanding : SaveAnswers(req)

ClientSpec == Init /\ [][ClientNext]_vars

\* ------------------------------------------------------------ the bootstrap
\* bound: entries in the listing the upstream returns to the bootstrap
MaxRaw == 3

\* environments of the bootstrap: token and route set or not, a route of one
\* segment, a route naming a repository, a route naming a directory in it
BootEnvs ==
    { [token |-> token, route |-> route] :
        token \in { UNDEFINED, <<"token">> },
        route \in { UNDEFINED, <<"owner">>, <<"owner", "/", "repo">>,
                    <<"owner", "/", "repo", "/", "a">> } }

\* entries of treeDataJson.tree: with path and mode, without path, without
\* mode, and one whose parent path is a key of Object.prototype
RawEntries ==
    { [path |-> <<"a">>, type |-> "tree", mode |-> <<"040000">>],
      [path |-> <<"a", "/", "b", ".", "md">>, type |-> "blob", mode |-> <<"100644">>],
      [path |-> UNDEFINED, type |-> "blob", mode |-> <<"100644">>],
      [path |-> <<"e", "/", "f">>, type |-> "blob", mode |-> UNDEFINED],
      [path |-> <<"constructor", "/", "x">>, type |-> "blob", mode |-> <<"100644">>] }

\* what a call of the bootstrap meets: a success, a failure status whose JSON
\* body has a message or none, a rejected fetch with a message or none
BootOutcomes ==
    { [kind |-> "ok", message |-> UNDEFINED],
      [kind |-> "status", message |-> <<"Not Found">>],
      [kind |-> "status", message |-> UNDEFINED],
      [kind |-> "throw", message |-> <<"fetch failed">>],
      [kind |-> "throw", message |-> EmptyString] }

\* return { props: { error: message || fallback } }
ErrorProps(message, fallback) ==
    /\ pc' = "error"
    /\ error' = IF Falsy(message) THEN fallback ELSE message

\* the two checks of the environment before the try block
ReadEnv ==
    /\ pc = "env"
    /\ IF Falsy(env.token) \/ Falsy(env.route)
       THEN ErrorProps(<<"env unset">>, <<"env unset">>)
       ELSE IF Len(Split(env.route, "/")) < 2
       THEN ErrorProps(<<"route format">>, <<"route format">>)
       ELSE pc' = "repo" /\ error' = error
    /\ UNCHANGED <<served, calls, listing>>
    /\ UNCHANGED <<env, repo, pageVars, inflight, lastOp, treeVars, navVars>>

\* one awaited fetch of the bootstrap and the `if (!response.ok)` after it
BootCall(at, name, outcome, fallback, next) ==
    /\ pc = at
    /\ calls' = Append(calls, [name |-> name, ok |-> outcome.kind = "ok"])
    /\ IF outcome.kind = "ok" THEN pc' = next /\ error' = error
       ELSE IF outcome.kind = "status" THEN ErrorProps(outcome.message, fallback)
       ELSE ErrorProps(outcome.message, <<"exception">>)

\* GET /repos/{owner}/{repo}
FetchRepo(outcome) ==
    /\ BootCall("repo", "repo", outcome, <<"no repository">>, "branch")
    /\ UNCHANGED <<served, listing>>
    /\ UNCHANGED <<env, repo, pageVars, inflight, lastOp, treeVars, navVars>>

\* FetchBranch without `if (!branchResponse.ok) return`: the tree is
\* requested whatever the branch call answered
FetchBranchUnchecked(outcome) ==
    /\ pc = "branch"
    /\ calls' = Append(calls, [name |-> "branch", ok |-> outcome.kind = "ok"])
    /\ pc' = "tree"
    /\ UNCHANGED <<served, listing, error>>
    /\ UNCHANGED <<env, repo, pageVars, inflight, lastOp, treeVars, navVars>>

\* GET /repos/{owner}/{repo}/branches/{defaultBranch}
FetchBranch(outcome) ==
    /\ BootCall("branch", "branch", outcome, <<"no branch">>, "tree")
    /\ UNCHANGED <<served, listing>>
    /\ UNCHANGED <<env, repo, pageVars, inflight, lastOp, treeVars, navVars>>

\* GET /repos/{owner}/{repo}/git/trees/{treeSha}?recursive=1
FetchTree(outcome, raw) ==
    /\ BootCall("tree", "tree", outcome, <<"no tree">>, "filter")
    /\ listing' = IF outcome.kind = "ok" THEN raw ELSE listing
    /\ UNCHANGED served
    /\ UNCHANGED <<env, repo, pageVars, inflight, lastOp, treeVars, navVars>>

\* item => item.path && item.mode
Kept(item) == ~Falsy(item.path) /\ ~Falsy(item.mode)

\* treeDataJson.tree.filter(...) and the entry of buildTree(treeItems)
EnterBuildTree ==
    /\ pc = "filter"
    /\ pc' = "build"
    /\ calls' = Append(calls, [name |-> "buildTree", ok |-> TRUE])
    /\ flatList' = SelectSeq(listing, Kept)
    /\ built' = 0
    /\ tree' = <<>>
    /\ children' = [i \in 1..Len(flatList') |-> <<>>]
    /\ map' = <<>>
    /\ threw' = FALSE
    /\ UNCHANGED <<served, error, listing>>
    /\ UNCHANGED <<env, repo, pageVars, inflight, lastOp, navVars>>

\* the TypeError of buildTree lands in the catch of getServerSideProps
CatchBuildError ==
    /\ pc = "build" /\ threw
    /\ ErrorProps(<<"TypeError">>, <<"exception">>)
    /\ UNCHANGED <<served, calls, listing>>
    /\ UNCHANGED <<env, repo, pageVars, inflight, lastOp, treeVars, navVars>>

\* getServerSideProps entered, nothing read yet
BootInit ==
    /\ env \in BootEnvs
    /\ repo = InitialRepo
    /\ selectedPath = NULL
    /\ preview = EmptyString
    /\ previewMeta = NoMeta
    /\ loadingPreview = FALSE
    /\ isEditing = FALSE
    /\ editorMode = "source"
    /\ editContent = EmptyString
    /\ fileSha = NULL
    /\ commitMsg = EmptyString
    /\ saving = FALSE
    /\ visualHtml = EmptyString
    /\ inflight = EmptyBag
    /\ lastOp = "init"
    /\ rendered = FALSE
    /\ expanded = <<>>
    /\ toggled = <<>>
    /\ lost = {}
    /\ served = NoExchange
    /\ pc = "env"
    /\ calls = <<>>
    /\ error = NULL
    /\ listing = <<>>
    /\ flatList = <<>>
    /\ TreeEmpty

\* the bootstrap and the first render of the page with its props
BootNext ==
    \/ ReadEnv
    \/ \E outcome \in BootOutcomes : FetchRepo(outcome)
    \/ \E outcome \in BootOutcomes : FetchBranch(outcome)
    \/ \E outcome \in BootOutcomes, raw \in SeqsUpTo(RawEntries, MaxRaw) :
          FetchTree(outcome, raw)
    \/ EnterBuildTree
    \/ BuildStep
    \/ CatchBuildError
    \/ RenderHome

BootSpec == BootInit /\ [][BootNext]_vars

\* the page's three fetching handlers, every request resolving in the end
LiveNext ==
    \/ BuildStep
    \/ RenderHome
    \/ \E path \in Files : Room(1) /\ ClickFile(path)
    \/ ClickEdit
    \/ \E message \in TypedMessage : TypeMessage(message)
    \/ ClickCommit
    \/ \E req \in Outstanding : SelectResponse(req)
    \/ \E req \in Outstanding : EditResponse(req)
    \/ \E req \in Outstanding : CommitResponse(req)
    \/ \E req \in Outstanding : PreviewEndpoint(req)
    \/ \E req \in Outstanding : SaveAnswers(req)
    \/ \E req \in Outstanding : FetchRejects(req)

\* a content fetch is answered, or rejects, or its handler resumes
ContentResolves ==
    \E req \in Outstanding :
        /\ req.kind \in {"select", "edit"}
        /\ \/ PreviewEndpoint(req)
           \/ FetchRejects(req)
           \/ SelectResponse(req)
           \/ EditResponse(req)

\* the save request is answered, or rejects, or handleCommit resumes
CommitResolves ==
    \E req \in Outstanding :
        /\ req.kind = "commit"
        /\ \/ SaveAnswers(req)
           \/ FetchRejects(req)
           \/ CommitResponse(req)

\* every await of the page resolves: the fetches settle and the event loop
\* runs the continuations
LiveSpec ==
    /\ Init
    /\ [][LiveNext]_vars
    /\ WF_vars(ContentResolves)
    /\ WF_vars(CommitResolves)

\* the nodes whose toggled flag the collapse of node i destroys
Dropped(i) ==
    IF expanded[i]
    THEN { j \in (Subtree(i) \ {i}) \cap DOMAIN toggled : toggled[j] }
    ELSE {}

\* a toggle, remembering the toggles it destroys
ToggleNodeTracked(i) ==
    /\ ToggleNode(i)
    /\ lost' = lost \cup Dropped(i)

\* room for n more fetches beside those outstanding
Slots(n) == BagCardinality(inflight) + n <= MaxInFlight

\* the page while a commit is under way: the tree stays clickable, so that a
\* select can be issued between the commit's request and its continuation
RefetchNext ==
    \/ BuildStep
    \/ RenderHome
    \/ \E path \in Files : Slots(1) /\ ClickFile(path)
    \/ ClickEdit
    \/ \E message \in TypedMessage : TypeMessage(message)
    \/ ClickCommit
    \/ \E req \in Outstanding : SelectResponse(req)
    \/ \E req \in Outstanding : EditResponse(req)
    \/ \E req \in Outstanding : CommitResponse(req)
    \/ \E req \in Outstanding : PreviewEndpoint(req)
    \/ \E req \in Outstanding : SaveAnswers(req)

RefetchSpec == Init /\ [][RefetchNext]_vars

\* the two endpoints called by any client under each configuration
EndpointInit ==
    /\ flatList = RepoListing
    /\ TreeEmpty
    /\ env \in EndpointEnvs
    /\ SessionStart

\* the handlers keep nothing between two requests: a behaviour is one request
EndpointNext ==
    \/ /\ served = NoExchange
       /\ \E path \in PreviewPaths, ref \in PreviewRefs, reply \in GetReplies :
             PreviewServes(path, ref, reply)
    \/ /\ served = NoExchange
       /\ \E method \in SaveMethods, body \in SaveBodies, reply \in PutReplies :
             SaveServes(method, body, reply)
    \/ /\ served = NoExchange
       /\ DebugServes

EndpointSpec == EndpointInit /\ [][EndpointNext]_vars

\* the tree view of a repository with nested directories, for each route
NavInit ==
    /\ flatList = NavListing
    /\ TreeEmpty
    /\ env \in { [token |-> <<"token">>, route |-> route] : route \in NavRoutes }
    /\ SessionStart

\* the tree view, the selection of files, entering and leaving the editor
NavNext ==
    \/ BuildStep
    \/ RenderHome
    \/ \E i \in DOMAIN expanded : ToggleNode(i) /\ UNCHANGED lost
    \/ \E path \in Files : Room(1) /\ ClickFile(path)
    \/ ClickEdit
    \/ \E message \in TypedMessage : TypeMessage(message)
    \/ ClickCancel
    \/ \E req \in Outstanding : SelectResponse(req)
    \/ \E req \in Outstanding : EditResponse(req)
    \/ \E req \in Outstanding : PreviewEndpoint(req)

NavSpec == NavInit /\ [][NavNext]_vars

\* the tree view alone: the first render and the clicks on directories
TreeViewNext ==
    \/ BuildStep
    \/ RenderHome
    \/ \E i \in DOMAIN expanded : ToggleNodeTracked(i)

\* routes of the tree view alone: those of NavRoutes, the directory a, and
\* the directory a/e beside a/c
TreeViewRoutes ==
    NavRoutes \cup { <<"owner", "/", "repo", "/", "a">>,
                     <<"owner", "/", "repo", "/", "a", "/", "e">> }

TreeViewInit ==
    /\ flatList = NavListing
    /\ TreeEmpty
    /\ env \in { [token |-> <<"token">>, route |-> route] : route \in TreeViewRoutes }
    /\ SessionStart

TreeViewSpec == TreeViewInit /\ [][TreeViewNext]_vars

\* ------------------------------------------------------- buildTree: claims
Finished == threw \/ built = Len(flatList)

Items == 1..Len(flatList)

UniquePaths ==
    \A i, j \in Items : flatList[i].path = flatList[j].path => i = j

Nested(i) == Includes(flatList[i].path, "/")

\* every nested entry's computed parent path is the path of some entry
NoMissingAncestors ==
    \A i \in Items : Nested(i) =>
        \E j \in Items : flatList[j].path = ParentPath(flatList[i].path)

\* ... of an entry that comes earlier in the list
ParentsFirst ==
    \A i \in Items : Nested(i) =>
        \E j \in 1..(i - 1) : flatList[j].path = ParentPath(flatList[i].path)

\* how often item i occurs in the sequence s
Occurrences(s, i) == Cardinality({k \in 1..Len(s) : s[k] = i})

RECURSIVE SumOver(_, _)
SumOver(S, f) ==
    IF S = {} THEN 0
    ELSE LET x == CHOOSE y \in S : TRUE IN f[x] + SumOver(S \ {x}, f)

\* item i is a child exactly once in the whole forest, of the entry whose path
\* is i's parent path, and is no top-level root
PlacedUnderParent(i) ==
    /\ SumOver(Items, [j \in Items |-> Occurrences(children[j], i)]) = 1
    /\ \E j \in Items : /\ flatList[j].path = ParentPath(flatList[i].path)
                         /\ Occurrences(children[j], i) = 1
    /\ Occurrences(tree, i) = 0

\* entries of the returned forest, counted recursively through children
RECURSIVE CountNode(_)
CountNode(i) ==
    1 + SumOver(1..Len(children[i]), [k \in 1..Len(children[i]) |-> CountNode(children[i][k])])

CountForest == SumOver(1..Len(tree), [k \in 1..Len(tree) |-> CountNode(tree[k])])

C2_TotalAndComplete ==
    Finished =>
        /\ ~threw
        /\ CountForest = Len(flatList)
        /\ \A i \in Items :
              (Nested(i) /\ ~\E j \in Items : flatList[j].path = ParentPath(flatList[i].path))
                  => Occurrences(tree, i) = 1
\* ---------------------------------------------------------- session: claims
\* C3: when enterEdit succeeds on a text file the session is Editing in source
\* mode, the draft is the content just fetched and baseRevision holds the
\* revision token of that fetch (neither null nor undefined).
C3_EnterEditPopulates ==
    [][\A req \in Outstanding :
          (EditResponse(req) /\ lastOp' = "editOk") =>
              /\ isEditing' /\ editorMode' = "source"
              /\ editContent' = req.res.data.content
              /\ ~Falsy(fileSha')]_vars

\* C4: once the save endpoint has answered a commit request, it has sent the
\* upstream PUT with the request's path, message, content, revision token and
\* the default branch.
C4_CommitReachesUpstream ==
    \A req \in Outstanding :
        (req.kind = "commit" /\ req.answered /\ ~req.res.thrown) =>
            LET r == req IN
            /\ r.upstream.made /\ r.upstream.method = "PUT"
            /\ r.upstream.path = r.path
            /\ r.upstream.message = r.body.message
            /\ r.upstream.content = Base64(r.body.content)
            /\ r.upstream.sha = r.body.sha /\ ~Falsy(r.body.sha)
            /\ r.upstream.ref = DefaultBranch

\* C5: no commit request is sent to the save endpoint while baseRevision is
\* not populated.
C5_NoCommitWithoutRevision ==
    \A req \in Outstanding : req.kind = "commit" => ~Falsy(req.body.sha)

\* C6: the continuation of a failed commit leaves the draft, the revision
\* token, the message, the mode and the editor sub-mode as they were and
\* clears the saving flag.
C6_FailedCommitKeepsDraft ==
    [][\A req \in Outstanding :
          (CommitResponse(req) /\ lastOp' = "commitFailed") =>
              /\ UNCHANGED <<editContent, fileSha, commitMsg, isEditing, editorMode>>
              /\ ~saving']_vars

\* a commit of a draft has failed and the editor still holds draft and message
C6_Witness ==
    /\ lastOp = "commitFailed"
    /\ isEditing /\ ~saving
    /\ ~Falsy(editContent) /\ ~Falsy(commitMsg)

\* C7: a successful commit leaves Editing, clears the preview and issues a
\* select fetch for the committed path; the preview becomes non-empty again
\* only by the continuation of a select fetch.
C7_CommitRefetches ==
    [][/\ \A req \in Outstanding :
            (CommitResponse(req) /\ lastOp' = "commitOk") =>
                /\ ~isEditing'
                /\ preview' = EmptyString /\ ~previewMeta'.present
                /\ selectedPath' = req.path
                /\ BagIn(Request("select", req.path, NoBody), inflight')
       /\ (preview' # preview /\ preview' # EmptyString) =>
              \E req \in Outstanding : SelectResponse(req)]_vars

\* a commit of a non-empty draft has succeeded: the preview is empty and the
\* re-fetch is outstanding
C7_Witness ==
    /\ lastOp = "commitOk"
    /\ ~isEditing /\ loadingPreview
    /\ ~Falsy(editContent) /\ preview = EmptyString
    /\ \E req \in Outstanding : req.kind = "select" /\ req.path = selectedPath

\* C8: after a successful commit the draft, the revision token and the commit
\* message are back at their initial values.
C8_CommitDiscardsDraft ==
    lastOp = "commitOk" =>
        (editContent = EmptyString /\ fileSha = NULL /\ commitMsg = EmptyString)

\* C9: the continuation of an enterEdit whose fetch is classified image or
\* binary changes nothing of the session but the loading flag, which it clears.
C9_NotEditableChangesNothing ==
    [][\A req \in Outstanding :
          (EditResponse(req) /\ Ok(req.res)
             /\ (req.res.data.isImage \/ req.res.data.isBinary)) =>
              /\ lastOp' = "editNotEditable"
              /\ UNCHANGED <<isEditing, editorMode, editContent, fileSha, preview,
                             previewMeta, selectedPath, commitMsg>>
              /\ ~loadingPreview']_vars

\* enterEdit has been refused for an image while the page was in Preview
C9_Witness ==
    /\ lastOp = "editNotEditable"
    /\ ~isEditing /\ ~loadingPreview
    /\ selectedPath = ImagePath

\* the file at `path` is classified text by the preview endpoint
IsTextFile(path) ==
    /\ path \in DOMAIN repo
    /\ ~Classify(path, repo[path]).isImage
    /\ ~Classify(path, repo[path]).isBinary

\* C10: every commit request names a file whose content kind is text.
C10_CommitOnlyForText ==
    \A req \in Outstanding : req.kind = "commit" => IsTextFile(req.body.path)

\* C11: the page enters Editing only by the continuation of an enterEdit fetch
\* whose answer is a success classified text, and the draft it starts with is
\* the content of that answer.
C11_EditingOnlyByEnterEdit ==
    [][(~isEditing /\ isEditing') =>
          \E req \in Outstanding :
              /\ req.kind = "edit" /\ req.answered
              /\ Ok(req.res) /\ ~req.res.data.isImage /\ ~req.res.data.isBinary
              /\ inflight' = Settled(inflight, req)
              /\ editContent' = req.res.data.content]_vars

\* Editing entered while the preview held by the page is not the fetched text
C11_Witness ==
    /\ lastOp = "editOk" /\ isEditing
    /\ ~Falsy(editContent) /\ preview # editContent

\* C12: the continuation of a select fetch applies its answer whatever path is
\* selected by then: the preview and its classification become those of the
\* answer, the selected path stays, the loading flag is cleared.
C12_LastResponseWins ==
    [][\A req \in Outstanding :
          (SelectResponse(req) /\ Ok(req.res)) =>
              /\ preview' = req.res.data.content
              /\ previewMeta' = req.res.data
              /\ selectedPath' = selectedPath
              /\ ~loadingPreview']_vars

\* select(A) answered after select(B): B is selected, the preview is A's, and
\* nothing is outstanding
C12_Witness ==
    /\ lastOp = "selectOk"
    /\ selectedPath = ImagePath
    /\ previewMeta = Classify(DocPath, repo[DocPath])
    /\ preview = previewMeta.content
    /\ ~loadingPreview
    /\ inflight = EmptyBag

\* the outstanding requests of one handler
OutstandingOf(kind) ==
    SumOver({req \in Outstanding : req.kind = kind},
            [req \in {r \in Outstanding : r.kind = kind} |-> CopiesIn(req, inflight)])

\* C13 as claimed: at most one select fetch, one enterEdit fetch and one commit
\* submission are outstanding at any time.
C13_OnePerSlot ==
    /\ OutstandingOf("select") <= 1
    /\ OutstandingOf("edit") <= 1
    /\ OutstandingOf("commit") <= 1

\* C13 as amended: at most one commit submission is outstanding at any time,
\* and one is outstanding exactly while the saving flag is set.
C13_OneCommit ==
    /\ OutstandingOf("commit") <= 1
    /\ saving <=> OutstandingOf("commit") = 1

\* a commit submission is outstanding and the editor is shown
C13_Witness ==
    /\ saving /\ EditorShown
    /\ OutstandingOf("commit") = 1

\* C15: commit with an empty message sends no request and changes nothing of
\* the session.
C15_EmptyMessageRejected ==
    [][(ClickCommit /\ Falsy(commitMsg)) =>
          /\ UNCHANGED <<pageVars, inflight, repo>>
          /\ lastOp' = "commitRejected"]_vars

\* commit has been refused for its empty message, the draft not being empty
C15_Witness ==
    /\ lastOp = "commitRejected"
    /\ EditorShown /\ ~saving
    /\ Falsy(commitMsg) /\ ~Falsy(editContent)

\* ------------------------------------------------------- tree view: claims
\* C14: cancelEdit leaves Editing, clears the draft, the revision token and
\* the commit message, sends no request, and leaves the selected path, the
\* preview, its classification and every expansion flag as they were.
C14_CancelFrame ==
    [][ClickCancel =>
          /\ ~isEditing'
          /\ editContent' = EmptyString /\ fileSha' = NULL /\ commitMsg' = EmptyString
          /\ UNCHANGED <<selectedPath, preview, previewMeta, expanded, inflight>>]_vars

\* the editor has been cancelled over a preview, directories being expanded
C14_Witness ==
    /\ lastOp = "cancel" /\ ~isEditing
    /\ ~Falsy(selectedPath) /\ ~Falsy(preview) /\ previewMeta.present
    /\ \E i \in DOMAIN expanded : expanded[i] /\ toggled[i]

\* the path segments of `path` are the first segments of `target`
AncestorOrEqual(path, target) ==
    LET ps == Split(path, "/")
        ts == Split(target, "/")
    IN  Len(ps) <= Len(ts) /\ SubSeq(ts, 1, Len(ps)) = ps

\* C16: a node that a step mounts starts expanded exactly if initialPath is
\* not empty, the node is a directory, and the node's path is initialPath or
\* one of its ancestors (segment by segment).
C16_MountRule ==
    [][\A j \in (DOMAIN expanded') \ (DOMAIN expanded) :
          expanded'[j] <=>
              /\ initialPath # EmptyString
              /\ flatList[j].type = "tree"
              /\ AncestorOrEqual(flatList[j].path, initialPath)]_vars

\* initialPath = a/c/d.txt: a/c is shown expanded, its sibling a/e is not,
\* and neither has been toggled
C16_Witness ==
    /\ initialPath = <<"a", "/", "c", "/", "d", ".", "txt">>
    /\ \E i, j \in DOMAIN expanded :
          /\ flatList[i].path = <<"a", "/", "c">> /\ expanded[i] /\ ~toggled[i]
          /\ flatList[j].path = <<"a", "/", "e">> /\ ~expanded[j] /\ ~toggled[j]

\* C17 as claimed: a mounted node is displayed expanded exactly if it has been
\* toggled or is an ancestor-or-equal of initialPath.
C17_DisplayedIsOr ==
    \A j \in DOMAIN expanded : expanded[j] <=> (toggled[j] \/ ShouldExpand(j))

\* C17 as amended: a mounted node is displayed expanded exactly if its one
\* flag says so: the value of the initialPath rule at mount, flipped by every
\* toggle since.
C17_DisplayedIsFlag ==
    \A j \in DOMAIN expanded : expanded[j] <=> (toggled[j] # ShouldExpand(j))

\* a directory on the way to initialPath has been toggled and is collapsed
C17_Witness ==
    \E j \in DOMAIN expanded : ShouldExpand(j) /\ toggled[j] /\ ~expanded[j]

\* C18: a click on a file selects it and issues one select fetch for it,
\* leaving every expansion flag as it was; a click on a directory leaves the
\* selected path and the outstanding requests as they were.
C18_ClickEffects ==
    [][/\ \A path \in Files :
            ClickFile(path) =>
                /\ selectedPath' = path
                /\ inflight' = Issued(inflight, Request("select", path, NoBody))
                /\ UNCHANGED expanded
       /\ \A i \in DOMAIN expanded :
            ToggleNode(i) => UNCHANGED <<selectedPath, inflight>>]_vars

\* a file below two expanded directories has been clicked
C18_Witness ==
    /\ lastOp = "click" /\ loadingPreview
    /\ selectedPath = <<"a", "/", "c", "/", "d", ".", "txt">>
    /\ BagIn(Request("select", selectedPath, NoBody), inflight)
    /\ Cardinality({ i \in DOMAIN expanded : expanded[i] }) >= 2

\* C19: a toggle flips the flag of the node clicked, keeps the flag of every
\* other node that stays mounted, and changes nothing of the preview/edit
\* session; a click on a file changes no flag.
C19_ToggleFrame ==
    [][/\ \A i \in DOMAIN expanded :
            ToggleNode(i) =>
                /\ expanded'[i] = ~expanded[i]
                /\ \A j \in ((DOMAIN expanded) \cap (DOMAIN expanded')) \ {i} :
                      expanded'[j] = expanded[j]
                /\ UNCHANGED <<pageVars, inflight, repo>>
       /\ \A path \in Files : ClickFile(path) => expanded' = expanded]_vars

\* the editor being open, a directory has been toggled open beside one that
\* is expanded since it was mounted
C19_Witness ==
    /\ isEditing /\ lastOp = "click"
    /\ \E i, j \in DOMAIN expanded :
          /\ i # j
          /\ expanded[i] /\ toggled[i]
          /\ expanded[j] /\ ~toggled[j]

\* the blob entries of the forest buildTree returned
BlobsInTree ==
    { flatList[i].path :
        i \in { j \in UNION { Subtree(tree[k]) : k \in 1..Len(tree) } :
                  flatList[j].type = "blob" } }

\* C20: the selected path is unset or the path of a file of the tree, and no
\* step unsets it.
C20_StickySelection ==
    /\ [](selectedPath = NULL \/ selectedPath \in BlobsInTree)
    /\ [][selectedPath # NULL => selectedPath' # NULL]_vars

\* a file is still selected after the editor was cancelled
C20_Witness ==
    /\ lastOp = "cancel"
    /\ selectedPath \in BlobsInTree
    /\ ~isEditing /\ editContent = EmptyString

\* -------------------------------------------------- selecting a file: claims
\* C21: the continuation of a select fetch, succeeded or failed, leaves the
\* page in Preview.
C21_SelectResetsMode ==
    [][\A req \in Outstanding : SelectResponse(req) => ~isEditing']_vars

\* a failed select fetch has taken the page out of the editor (the draft and
\* the revision token of the editor are still held)
C21_Witness ==
    /\ lastOp = "selectFailed"
    /\ ~isEditing
    /\ ~Falsy(editContent) /\ fileSha # NULL

\* C22: the continuation of a failed select fetch puts the error text in the
\* preview, leaves no classification (so that the edit button is not shown),
\* clears the loading flag, leaves the failed file selected and issues no
\* request.
C22_SelectFailure ==
    [][\A req \in Outstanding :
          (SelectResponse(req) /\ ~Ok(req.res)) =>
              /\ preview' = <<"Error: ">> \o req.res.text
              /\ ~previewMeta'.present /\ ~canEdit'
              /\ ~loadingPreview'
              /\ selectedPath' = req.path
              /\ inflight' = Settled(inflight, req)]_vars

\* the only fetch outstanding, which is for the selected file
Sole(req) == inflight = SetToBag({req}) /\ req.path = selectedPath

\* C23: a file selected while nothing is outstanding and resolved before
\* anything else leaves a session state that the path and the upstream file
\* determine, whatever was previewed before: the click and the continuation
\* touch nothing of the editor, and the preview, its classification, the mode
\* and the flags are those of the upstream file.
C23_SelectIdempotent ==
    [][/\ \A path \in Files :
            (ClickFile(path) /\ inflight = EmptyBag) =>
                /\ selectedPath' = path
                /\ inflight' = SetToBag({Request("select", path, NoBody)})
                /\ UNCHANGED <<editorMode, editContent, fileSha, commitMsg, saving>>
       /\ \A req \in Outstanding :
            (SelectResponse(req) /\ Ok(req.res) /\ Sole(req)) =>
                /\ previewMeta' = Classify(req.path, repo[req.path])
                /\ preview' = previewMeta'.content
                /\ selectedPath' = req.path
                /\ ~isEditing' /\ ~loadingPreview' /\ inflight' = EmptyBag
                /\ UNCHANGED <<editorMode, editContent, fileSha, commitMsg, saving>>]_vars

\* a/b.md previewed again after it had been previewed and opened in the
\* editor without a change to the draft: the preview is the one shown before
C23_Witness ==
    /\ lastOp = "selectOk" /\ inflight = EmptyBag
    /\ selectedPath = DocPath /\ ~isEditing
    /\ editContent = repo[DocPath].bytes
    /\ preview = editContent
    /\ previewMeta = Classify(DocPath, repo[DocPath])

\* ------------------------------------------------------ endpoints: claims
\* the extension -> MIME type table of the preview endpoint
MimeTable(extension) ==
    IF extension = <<"png">> THEN <<"image/png">>
    ELSE IF extension = <<"gif">> THEN <<"image/gif">>
    ELSE IF extension = <<"bmp">> THEN <<"image/bmp">>
    ELSE IF extension = <<"webp">> THEN <<"image/webp">>
    ELSE <<"image/jpeg">>

\* the upstream declared the file textual
DeclaredText(file) ==
    \/ StartsWith(file.contentType, <<"text/">>)
    \/ Includes(file.contentType, "charset")

\* C24: a 200 answer of the preview endpoint is an image exactly if the
\* extension is an image extension (whatever the content-type), then with the
\* MIME type of the table and the bytes in base64; it is binary exactly if it
\* is no image, the file is neither declared text nor has a text extension,
\* and its bytes are not UTF-8; never both; mimeType is there iff image.
C24_ClassificationOrder ==
    (served.endpoint = "preview" /\ served.answer.status = 200) =>
        LET extension == Extension(served.path)
            file == served.reply.file
            data == served.answer.data
        IN  /\ data.isImage <=> extension \in ImageExts
            /\ data.isImage =>
                  (data.mimeType = MimeTable(extension) /\ data.content = Base64(file.bytes))
            /\ data.isBinary <=>
                  /\ extension \notin ImageExts
                  /\ ~DeclaredText(file) /\ extension \notin TextFileExts
                  /\ ~file.utf8
            /\ ~(data.isImage /\ data.isBinary)
            /\ (data.mimeType # UNDEFINED) <=> data.isImage
            /\ (~data.isImage /\ ~data.isBinary) => data.content = file.bytes

\* p.PNG delivered as text/plain is answered as an image/png image
C24_Witness ==
    /\ served.endpoint = "preview" /\ served.answer.status = 200
    /\ served.path = ImagePath
    /\ served.reply.file.contentType = <<"text/", "plain">>
    /\ served.answer.data.isImage /\ served.answer.data.mimeType = <<"image/png">>

\* C25: the preview endpoint answers 400 to a request without path and,
\* the path being there, 500 (configuration) without token or route; in both
\* cases it makes no upstream request.
C25_PreviewValidates ==
    served.endpoint = "preview" =>
        /\ Falsy(served.path) =>
              (served.answer.status = 400 /\ ~served.upstream.made)
        /\ (~Falsy(served.path) /\ (Falsy(env.token) \/ Falsy(env.route))) =>
              /\ served.answer = ErrorResponse(500, <<"configuration">>)
              /\ ~served.upstream.made

\* a request without path to an endpoint without configuration: 400
C25_Witness ==
    /\ served.endpoint = "preview"
    /\ served.path = UNDEFINED /\ env.token = UNDEFINED /\ env.route = UNDEFINED
    /\ served.answer.status = 400 /\ ~served.upstream.made

\* the body lacks path, message or sha, or its content is undefined
Incomplete(body) ==
    \/ body.path \in {UNDEFINED, NULL, EmptyString}
    \/ body.message \in {UNDEFINED, NULL, EmptyString}
    \/ body.sha \in {UNDEFINED, NULL, EmptyString}
    \/ body.content = UNDEFINED

\* C26: the save endpoint answers 405 to a method other than POST, else 400
\* to an incomplete body, else 500 without token or route, and makes no
\* upstream PUT in these cases; a complete body with an empty content under a
\* configuration is passed upstream.
C26_SaveValidates ==
    served.endpoint = "save" =>
        LET rejected == ~served.upstream.made
            configured == ~Falsy(env.token) /\ ~Falsy(env.route)
        IN  /\ served.method # "POST" => (served.answer.status = 405 /\ rejected)
            /\ (served.method = "POST" /\ Incomplete(served.body)) =>
                  (served.answer.status = 400 /\ rejected)
            /\ (served.method = "POST" /\ ~Incomplete(served.body) /\ ~configured) =>
                  (served.answer.status = 500 /\ rejected)
            /\ (served.method = "POST" /\ ~Incomplete(served.body) /\ configured) =>
                  /\ served.upstream.made /\ served.upstream.method = "PUT"
                  /\ served.upstream.content = Base64(served.body.content)

\* a complete POST with the empty string as content went upstream
C26_Witness ==
    /\ served.endpoint = "save" /\ served.method = "POST"
    /\ served.body.content = EmptyString
    /\ served.upstream.made

\* C27: an endpoint that called the upstream answers a non-success status
\* with that status and the upstream body in its error field, an exception
\* with 500; the save endpoint answers 200, with the upstream result, exactly
\* when the PUT succeeded.
C27_FailurePassThrough ==
    served.upstream.made =>
        /\ served.reply.kind = "status" =>
              /\ served.answer.status = served.reply.status
              /\ served.answer.text = <<"{error:">> \o served.reply.body \o <<"}">>
        /\ served.reply.kind = "throw" => served.answer.status = 500
        /\ served.endpoint = "save" =>
              /\ served.answer.status = 200 <=> served.reply.kind = "ok"
              /\ served.answer.status = 200 => served.answer.data = served.reply.result

\* the save endpoint passed the upstream's 422 and its body on
C27_Witness ==
    /\ served.endpoint = "save" /\ served.upstream.made
    /\ served.reply.kind = "status" /\ served.reply.status = 422
    /\ served.answer.status = 422

\* ------------------------------------------------------- bootstrap: claims
\* the calls of a bootstrap that runs to the end, in the order of the code
BootOrder == <<"repo", "branch", "tree", "buildTree">>

\* the environment fails one of the two checks made before the first call
EnvRejected ==
    Falsy(env.token) \/ Falsy(env.route) \/ Len(Split(env.route, "/")) < 2

\* C28: the bootstrap's calls are, in this order and each at most once, the
\* repository, the branch, the tree listing and buildTree; a call is made
\* only after the ones before it succeeded; a rejected environment makes no
\* call; a failed call is the last and leaves error props without tree data;
\* buildTree receives the listing without the entries lacking path or mode;
\* a bootstrap that returns a tree has made each call exactly once.
C28_BootstrapOrder ==
    /\ Len(calls) <= Len(BootOrder)
    /\ \A i \in 1..Len(calls) : calls[i].name = BootOrder[i]
    /\ \A i \in 1..Len(calls) : ~calls[i].ok => (i = Len(calls) /\ pc = "error")
    /\ EnvRejected => (calls = <<>> /\ pc \in {"env", "error"})
    /\ pc = "error" => (~Falsy(error) /\ treeData = <<>>)
    /\ Len(calls) = Len(BootOrder) =>
          /\ flatList = SelectSeq(listing, Kept)
          /\ \A k \in 1..Len(flatList) :
                ~Falsy(flatList[k].path) /\ ~Falsy(flatList[k].mode)
    /\ (pc = "build" /\ Returned) => (Len(calls) = Len(BootOrder) /\ error = NULL)
    /\ pc \in {"filter", "build"} => \A i \in 1..Len(calls) : calls[i].ok

\* a bootstrap returned a tree of one root from a listing of three entries,
\* one without path and one without mode
C28_Witness ==
    /\ pc = "build" /\ Returned
    /\ Len(listing) = 3 /\ Len(flatList) = 1 /\ Len(tree) = 1
    /\ \E k \in 1..3 : Falsy(listing[k].path)
    /\ \E k \in 1..3 : Falsy(listing[k].mode)
    /\ Len(calls) = 4

\* what a rendered Home shows: the explorer, with the roots of treeData or
\* its notice of no data, beside the panes; no branch reads the error prop
Screen ==
    [container |-> "app",
     explorer |-> IF Len(treeData) > 0 THEN "nodes" ELSE "no data",
     message |-> EmptyString]

\* C29: a page rendered with error props shows a full-page error with the
\* text of that error, and no node of the tree.
C29_ErrorPage ==
    (rendered /\ pc = "error") =>
        /\ Screen.container = "error"
        /\ Screen.message = error
        /\ DOMAIN expanded = {}

C31_TreeImmutable == [][Returned => UNCHANGED <<tree, children>>]_vars

\* ------------------------------------------------------- the editor: modes
\* C32: toggleEditorMode alternates the editor mode between source and
\* visual and leaves isEditing, fileSha, selectedPath and the commit message
\* alone; from source the draft is unchanged, from visual the draft becomes
\* Turndown of the visual editor's HTML.
C32_ToggleFrame ==
    [][ToggleEditorMode =>
          /\ editorMode' = (IF editorMode = "source" THEN "visual" ELSE "source")
          /\ UNCHANGED <<isEditing, fileSha, selectedPath, commitMsg>>
          /\ editorMode = "source" => editContent' = editContent
          /\ editorMode = "visual" => editContent' = Turndown(visualHtml)]_vars

\* back in source mode after the user typed in the visual editor: the draft
\* is the markdown of what was typed, not the file's content
C32_Witness ==
    /\ lastOp = "toggle" /\ isEditing /\ editorMode = "source"
    /\ selectedPath = DocPath
    /\ editContent = Turndown(<<"<p>", "y", "nl", "</p>">>)
    /\ editContent # repo[DocPath].bytes

\* ------------------------------------------------- the editor: concurrency
\* C33: the continuation of an enterEdit fetch that puts the page in Editing
\* stores a draft fetched for the path selected at that moment, so that a
\* commit body's content belongs to the commit body's path.
C33_DraftOfSelectedPath ==
    [][\A req \in Outstanding :
          (EditResponse(req) /\ isEditing') =>
              /\ req.path = selectedPath'
              /\ editContent' = Classify(selectedPath', repo[selectedPath']).content]_vars

\* C34: a commit issued in visual mode after the user changed the visual
\* editor's HTML (it is no longer the HTML the editor was mounted with)
\* posts the markdown of that HTML as its content.
C34_CommitHasVisualEdits ==
    [][(ClickCommit /\ inflight' # inflight
          /\ editorMode = "visual" /\ visualHtml # Marked(editContent)) =>
             BagIn(Request("commit", selectedPath,
                           [CommitBody EXCEPT !.content = Turndown(visualHtml)]),
                   inflight')]_vars

\* ------------------------------------------------------ the flags: claims
\* C35: while the fetch of a select or of an enterEdit is outstanding the
\* loading flag is set, so neither the preview with its edit button nor the
\* editor with its controls is shown.
C35_LoadingWhileFetching ==
    (\E req \in Outstanding : req.kind \in {"select", "edit"}) =>
        (loadingPreview /\ ~EditorShown /\ ~PreviewShown)

\* C36: with nothing outstanding neither the loading flag nor the saving
\* flag is set, and when every request resolves a set loading flag and a set
\* saving flag are cleared again, on every path of the three handlers.
C36_Quiescence ==
    /\ [](inflight = EmptyBag => (~loadingPreview /\ ~saving))
    /\ loadingPreview ~> ~loadingPreview
    /\ saving ~> ~saving

\* nothing is outstanding after a commit failed: both flags are clear
C36_Witness ==
    /\ lastOp = "commitFailed"
    /\ inflight = EmptyBag
    /\ ~loadingPreview /\ ~saving

\* ------------------------------------------------ tree view: remounting
\* C37: a node has a flag exactly while it is mounted, that is while it is a
\* root or a child of a mounted expanded node; collapsing a node destroys the
\* flag of every node below it, and expanding a node creates the flags of
\* the nodes it mounts from the initialPath rule, whatever they were before.
C37_FlagsDieWithUnmount ==
    /\ [](rendered =>
            DOMAIN expanded =
                { tree[k] : k \in 1..Len(tree) }
                \cup UNION { ChildrenOf(i) : i \in { n \in DOMAIN expanded : expanded[n] } })
    /\ [][\A i \in DOMAIN expanded :
            ToggleNode(i) =>
                /\ expanded[i] => (DOMAIN expanded') \cap (Subtree(i) \ {i}) = {}
                /\ ~expanded[i] =>
                      \A j \in (DOMAIN expanded') \cap (Subtree(i) \ {i}) :
                          expanded'[j] = ShouldExpand(j) /\ ~toggled'[j]]_vars

\* a directory that had been toggled when its parent was collapsed is
\* mounted again, untoggled, with the flag of the initialPath rule
C37_Witness ==
    /\ lastOp = "click"
    /\ \E j \in lost \cap DOMAIN expanded :
          ~toggled[j] /\ expanded[j] = ShouldExpand(j)

\* ------------------------------------------------- commit: the re-fetch
\* C38: the continuation of a successful commit selects the path its
\* handler captured when the commit was issued, whatever is selected by
\* then, and issues a select fetch for that path beside the select fetches
\* still outstanding.
C38_RefetchCapturedPath ==
    [][\A req \in Outstanding :
          (CommitResponse(req) /\ lastOp' = "commitOk") =>
              /\ req.path = req.body.path
              /\ selectedPath' = req.path
              /\ inflight' = Issued(Settled(inflight, req),
                                    Request("select", req.path, NoBody))]_vars

\* the commit of a/b.md succeeded after p.PNG was selected: a/b.md is
\* selected again and the select fetches of both files are outstanding
C38_Witness ==
    /\ lastOp = "commitOk"
    /\ selectedPath = DocPath
    /\ \E b, a \in Outstanding :
          /\ b.kind = "select" /\ b.path = ImagePath
          /\ a.kind = "select" /\ a.path = DocPath

\* ------------------------------------------------------ the token: claims
\* what the browser would have received for the same request and the same
\* upstream reply under the environment e
Delivered(e) ==
    IF served.endpoint = "preview"
    THEN PreviewAnswer(served.path, served.ref, e, served.reply)[1]
    ELSE IF served.endpoint = "save"
    THEN SaveAnswer(served.method, served.body, e, served.reply)[1]
    ELSE OkResponse(DebugProps(e))

\* C39: what is delivered to the browser does not depend on the value of
\* GITHUB_USER_TOKEN: with another token and the same upstream reply the
\* browser receives the same answer, and no field of the answer is the token.
C39_TokenStaysServerSide ==
    (served.endpoint # "none" /\ ~Falsy(env.token)) =>
        /\ Delivered([env EXCEPT !.token = <<"other token">>]) = served.answer
        /\ served.endpoint = "debug" =>
              served.answer.data.GITHUB_USER_TOKEN # env.token
====
